---------------------------- MODULE Spec2Model ----------------------------
(***************************************************************************)
(* State-machine model of the audio analysis engine (AnalysisEngine), its  *)
(* classification dispatcher (AudioClassifierClient) and the worker thread *)
(* behind it.                                                              *)
(*                                                                         *)
(* Numbers.  Stream time is counted in ticks of 1/300 s, the least unit in *)
(* which every time constant of the code (1/30, 1/20, 0.22, 0.3, 0.03, 1.0,*)
(* 2.5, 4.5, 15 s) is a whole number.  RMS energies are fixed point with   *)
(* scale ES, normalised quantities (energyNorm, EMAs, probabilities,       *)
(* spectrum bins) fixed point with scale One, BPM is kept in tenths.       *)
(* Products are rounded down where the code rounds to nearest double.      *)
(***************************************************************************)
EXTENDS Integers, Sequences, FiniteSets, TLC

VARIABLES
  eng,        \* the AnalysisEngine object: every private field but classifier
  cls,        \* engine.classifier: the current AudioClassifierClient (or none)
  wk,         \* the worker thread of the current client and its message port
  late,       \* results posted by workers of disposed clients, not yet delivered
  mode,       \* process.env.AUDIO_CLASSIFIER: "worker" or "off"
  out,        \* the messages the last call handed to onMessage, in order
  call,       \* the last call or event, with its inputs
  hist,       \* history of the run: what the properties of sessions refer to
  ref,        \* a second engine run beside the first (reference of comparisons)
  queue       \* an AssetJobQueue or a VideoJobQueue and its enqueue calls under way

vars == <<eng, cls, wk, late, mode, out, call, hist, ref, queue>>

---------------------------------------------------------------------------
(* Units and bounds                                                        *)

TicksPerSec == 30 * 10          \* one tick is 1/300 s
ES  == 100 * 1000               \* fixed-point scale of RMS energies
One == 100 * 100                \* fixed-point scale of normalised values

\* Bounds of the model (not program constants): calls per run.
MaxDispFrames     == 6          \* accepted frames, dispatcher specification
MaxDispConfigures == 2          \* configure calls, dispatcher specification
MaxBadFrames      == 1          \* rejected pushPcmFrame calls
MaxBeatFrames     == 15         \* accepted frames, beat specification
MaxBpmBeats       == 9          \* beats of a timeline, tempo specification
MaxBpmConfigures  == 2          \* configure calls, tempo specification
MaxSectFrames     == 7          \* accepted frames, section specification
MaxSectConfigures == 2          \* configure calls, section specification
MaxSilFrames      == 9          \* accepted frames, silence specification
MaxBinsFrames     == 5          \* accepted frames, spectrum specification
MaxBinsConfigures == 3          \* configure calls, spectrum specification
MaxWorkerFrames   == 6          \* accepted frames, worker specification
MaxResampleCalls  == 3          \* process calls, resampler specification
MaxResampleLen    == 3          \* samples of an input frame, resampler specification
MaxRingCap        == 4          \* capacity of a ring, ring specification
MaxCfgFrames      == 5          \* frames, configuration specification
MaxPipeFrames     == 8          \* frames, pipeline specification
MaxTopUpdates     == 4          \* genre updates, top-label specification
MaxQueueIds       == 2          \* asset ids / video ids, job-queue specification
MaxEnqueues       == 3          \* enqueue calls, job-queue specification
MaxCfgConfigures  == 3          \* configure calls, configuration specification
MaxRingPushes     == 4          \* push calls, ring specification

Min(a, b) == IF a < b THEN a ELSE b
Max(a, b) == IF a > b THEN a ELSE b
Abs(a)    == IF a < 0 THEN -a ELSE a

\* sum and largest element (0 if none) of s[a..b], by halving
RECURSIVE SumIn(_, _, _)
SumIn(s, a, b) ==
  IF a > b THEN 0 ELSE IF a = b THEN s[a]
  ELSE SumIn(s, a, (a + b) \div 2) + SumIn(s, (a + b) \div 2 + 1, b)
SumSeq(s) == SumIn(s, 1, Len(s))

RECURSIVE MaxIn(_, _, _)
MaxIn(s, a, b) ==
  IF a > b THEN 0 ELSE IF a = b THEN s[a]
  ELSE Max(MaxIn(s, a, (a + b) \div 2), MaxIn(s, (a + b) \div 2 + 1, b))
MaxSeq(s) == MaxIn(s, 1, Len(s))

\* s[a+1 .. b] in 1-based terms: the JavaScript s.slice(a, b) for 0 <= a
Slice(s, a, b) == [i \in 1..Max(0, Min(b, Len(s)) - a) |-> s[a + i]]

\* the largest r in lo..hi with r * r <= n, by bisection
RECURSIVE IsqrtIn(_, _, _)
IsqrtIn(n, lo, hi) ==
  IF lo >= hi THEN lo
  ELSE LET mid == (lo + hi + 1) \div 2
       IN  IF mid * mid <= n THEN IsqrtIn(n, mid, hi) ELSE IsqrtIn(n, lo, mid - 1)
Isqrt(n) == IF n <= 0 THEN 0 ELSE IsqrtIn(n, 0, Min(n, 46340))

clamp01(x) == Max(0, Min(One, x))

\* seconds (given in hundredths) as ticks
Sec100(h) == (h * TicksPerSec) \div 100

---------------------------------------------------------------------------
(* AnalysisEngine: fields, construction, configure                         *)

GENRE_LABELS ==
  <<"Techno", "House", "Drum & Bass", "Trance", "Dubstep", "Hip-Hop", "Ambient">>

Absent == -1                    \* a key the Partial<EngineConfig> does not carry

Never == Sec100(-99900)         \* the -999 s the code starts its time stamps at

NoDist == [has |-> FALSE, v |-> <<>>, sess |-> 0]

\* The field initialisers of the class (engine.ts 72-123).
AnalysisEngine ==
  [ cfg |-> [sampleRate |-> 0, channels |-> 1, frameSize |-> 1024, spectrumBins |-> 64],
    configured |-> FALSE,
    fft |-> 0,                  \* size of the FFT instance, 0 for null
    tmpFrame |-> 0,             \* length of tmpFrame, 0 for null
    frameIndex |-> 0,
    sampleCounter |-> 0,
    energyEma |-> 0,
    energyFloor |-> (2 * ES) \div 1000,
    energyCeil |-> (8 * ES) \div 100,
    prevMag |-> <<>>,           \* <<>> for null
    fluxHistory |-> <<>>,
    fluxTimes |-> <<>>,
    lastBeatTime |-> Never,
    beatTimes |-> <<>>,
    lastEnergySentAt |-> 0,
    lastSpectrumSentAt |-> 0,
    lastClassSentAt |-> 0,
    silence |-> TRUE,
    silenceSince |-> 0,
    bpm |-> 0,                  \* tenths of a BPM, 0 for null
    bpmConfidence |-> 0,
    shortEnergy |-> 0,
    longEnergy |-> 0,
    energyDelta |-> 0,
    lastSection |-> "",         \* "" for null
    lastSectionAt |-> Never,
    lastDropAt |-> Never,
    lastBreakAt |-> Never,
    hasSpectrumBins |-> FALSE,  \* lastSpectrumBins !== null
    lastSpectrumBins |-> <<>>,
    genreEma |-> <<>>,          \* <<>> for null
    genreTop |-> "Techno",
    lastGenreChangeAt |-> Never,
    moodValenceEma |-> One \div 2,
    moodArousalEma |-> One \div 2,
    vocalProbEma |-> 0,
    workerGenreDist |-> NoDist, \* has = FALSE for null
    workerGenreAt |-> Never ]

\* { ...this.cfg, ...partial }
MergeCfg(cfg, partial) ==
  [k \in DOMAIN cfg |-> IF partial[k] = Absent THEN cfg[k] ELSE partial[k]]

RECURSIVE IsPow2(_)
IsPow2(n) == IF n <= 1 THEN FALSE ELSE IF n = 2 THEN TRUE
             ELSE n % 2 = 0 /\ IsPow2(n \div 2)

\* new FFT(size) of fft.js throws unless size is a power of two above 1
FFTThrows(size) == ~IsPow2(size)

\* engine.ts 131: the condition under which configure resets the engine
ConfigResets(cfg) == cfg.sampleRate > 0 /\ cfg.frameSize > 0

\* engine.ts 136-164: the fields configure assigns once the buffers are built
ResetFields(e) ==
  [e EXCEPT
    !.fluxHistory = <<>>, !.fluxTimes = <<>>, !.beatTimes = <<>>,
    !.lastBeatTime = Never, !.frameIndex = 0, !.sampleCounter = 0,
    !.energyEma = 0, !.bpm = 0, !.bpmConfidence = 0,
    !.silence = TRUE, !.silenceSince = 0,
    !.shortEnergy = 0, !.longEnergy = 0, !.energyDelta = 0,
    !.lastSection = "", !.lastSectionAt = Never,
    !.lastDropAt = Never, !.lastBreakAt = Never,
    !.hasSpectrumBins = FALSE, !.lastSpectrumBins = <<>>,
    !.genreEma = <<>>, !.genreTop = "Techno", !.lastGenreChangeAt = Never,
    !.moodValenceEma = One \div 2, !.moodArousalEma = One \div 2,
    !.vocalProbEma = 0,
    !.workerGenreDist = NoDist, !.workerGenreAt = Never]

\* engine.ts 129-164: the engine's own fields after configure(partial).
\* new FFT(frameSize) at line 133 throws for a frame size that is no power
\* of two: configured and cfg are then already assigned, nothing else is.
configure(e, partial) ==
  LET cfg == MergeCfg(e.cfg, partial)
      e1  == [e EXCEPT !.cfg = cfg]
  IN  IF ~ConfigResets(cfg) THEN e1
      ELSE IF FFTThrows(cfg.frameSize) THEN [e1 EXCEPT !.configured = TRUE]
      ELSE ResetFields([e1 EXCEPT !.configured = TRUE,
                                  !.fft = cfg.frameSize,
                                  !.tmpFrame = cfg.frameSize,
                                  !.prevMag = [i \in 1..(cfg.frameSize \div 2) |-> 0]])

\* whether configure(partial) reaches the classifier replacement (166-178)
ConfigureCompletes(e, partial) ==
  LET cfg == MergeCfg(e.cfg, partial)
  IN  ConfigResets(cfg) /\ ~FFTThrows(cfg.frameSize)

\* getStatus() (engine.ts 182-196); seconds in ticks
getStatus(e) ==
  [ sampleRate |-> IF e.configured THEN e.cfg.sampleRate ELSE Absent,
    channels |-> IF e.configured THEN e.cfg.channels ELSE Absent,
    frameSize |-> IF e.configured THEN e.cfg.frameSize ELSE Absent,
    spectrumBins |-> e.cfg.spectrumBins,
    seconds |-> IF e.configured /\ e.cfg.sampleRate > 0
                THEN (e.sampleCounter * TicksPerSec) \div e.cfg.sampleRate ELSE 0,
    bpm |-> e.bpm,
    bpmConfidence |-> e.bpmConfidence,
    energy |-> Max(0, Min(ES, e.energyEma)),
    silence |-> e.silence ]

---------------------------------------------------------------------------
(* AnalysisEngine.processFrame, statement by statement.  The operators     *)
(* below pass on a record [e: the engine, m: the messages emitted so far]. *)

Msg(kind, str, vals) == [k |-> kind, s |-> str, v |-> vals]

Emit(s, msg) == [s EXCEPT !.m = Append(@, msg)]

\* t = sampleCounter / sampleRate, in ticks (engine.ts 211)
StreamTime(e) == (e.sampleCounter * TicksPerSec) \div e.cfg.sampleRate

\* engine.ts 217-223: the energy EMA and the adaptive floor and ceiling
UpdateEnergy(e, rmsv) ==
  [e EXCEPT
    !.energyEma   = (@ * 92 + rmsv * 8) \div 100,
    !.energyFloor = Min((@ * 9995 + rmsv * 5) \div 10000, (5 * ES) \div 100),
    !.energyCeil  = Max((@ * 9995 + rmsv * 5) \div 10000, (6 * ES) \div 100)]

\* engine.ts 224-226
EnergyNorm(e) ==
  clamp01(((e.energyEma - e.energyFloor) * One) \div (e.energyCeil - e.energyFloor))

\* A faulty emitSection that sends a label it has just sent.
emitSectionAgain(s, t, section) ==
  Emit([s EXCEPT !.e.lastSection = section, !.e.lastSectionAt = t],
       Msg("section", section, <<>>))

\* A faulty emitSection that does not note when it sent the label.
emitSectionUnstamped(s, t, section) ==
  IF s.e.lastSection = section THEN s
  ELSE Emit([s EXCEPT !.e.lastSection = section], Msg("section", section, <<>>))

\* engine.ts 332-337
emitSection(s, t, section) ==
  IF s.e.lastSection = section THEN s
  ELSE Emit([s EXCEPT !.e.lastSection = section, !.e.lastSectionAt = t],
            Msg("section", section, <<>>))

\* engine.ts 279-330
updateSectionHeuristics(s, t, energy) ==
  LET prevShort == s.e.shortEnergy
      short == (s.e.shortEnergy * 75 + energy * 25) \div 100
      long  == (s.e.longEnergy * 98 + energy * 2) \div 100
      delta == short - prevShort
      s1 == [s EXCEPT !.e.shortEnergy = short, !.e.longEnergy = long,
                      !.e.energyDelta = delta]
      cooldown == Sec100(250)
      sectionCooldown == Sec100(100)
      canEmit == t - s.e.lastSectionAt > sectionCooldown
      isDrop  == /\ canEmit
                 /\ t - s.e.lastDropAt > cooldown
                 /\ long < (42 * One) \div 100
                 /\ short > (68 * One) \div 100
                 /\ delta > (8 * One) \div 100
      isBreak == /\ canEmit
                 /\ t - s.e.lastBreakAt > cooldown
                 /\ long > (55 * One) \div 100
                 /\ short < (33 * One) \div 100
                 /\ delta < -((6 * One) \div 100)
      build   == /\ canEmit
                 /\ long < (60 * One) \div 100
                 /\ short > (45 * One) \div 100
                 /\ delta > (2 * One) \div 100
                 /\ t - s.e.lastDropAt > Sec100(100)
  IN  IF isDrop THEN emitSection([s1 EXCEPT !.e.lastDropAt = t], t, "Drop")
      ELSE IF isBreak THEN emitSection([s1 EXCEPT !.e.lastBreakAt = t], t, "Break")
      ELSE IF build THEN emitSection(s1, t, "Build")
      ELSE s1

\* engine.ts 230: quiet means normalised energy below 0.03
SilenceNow(energyNorm) == energyNorm < (3 * One) \div 100

\* A faulty debounce that sends {silence: false} and leaves the flag set.
SilenceToggleKeepsFlag(s, t, silenceNow) ==
  IF silenceNow
  THEN [s EXCEPT !.e.silenceSince = IF ~s.e.silence THEN t ELSE @,
                 !.e.silence = TRUE]
  ELSE IF s.e.silence /\ t - s.e.silenceSince > Sec100(30)
       THEN Emit(s, Msg("silence", "false", <<>>))
       ELSE s

\* A faulty debounce that waits 3 s instead of 0.3 s.
SilenceToggleAfterThree(s, t, silenceNow) ==
  IF silenceNow
  THEN [s EXCEPT !.e.silenceSince = IF ~s.e.silence THEN t ELSE @,
                 !.e.silence = TRUE]
  ELSE IF s.e.silence /\ t - s.e.silenceSince > Sec100(300)
       THEN Emit([s EXCEPT !.e.silence = FALSE], Msg("silence", "false", <<>>))
       ELSE s

\* engine.ts 231-239: the debounced silence flag
SilenceToggle(s, t, silenceNow) ==
  IF silenceNow
  THEN [s EXCEPT !.e.silenceSince = IF ~s.e.silence THEN t ELSE @,
                 !.e.silence = TRUE]
  ELSE IF s.e.silence /\ t - s.e.silenceSince > Sec100(30)
       THEN Emit([s EXCEPT !.e.silence = FALSE], Msg("silence", "false", <<>>))
       ELSE s

\* engine.ts 240-242: the return in the middle of processFrame
SilenceReturns(e, t, silenceNow) ==
  e.silence /\ t - e.silenceSince > Sec100(100) /\ ~silenceNow

\* engine.ts 240-246: {silence: true}, sent inside a window around 1.0 s
SilenceEdge(s, t, silenceNow) ==
  IF /\ s.e.silence /\ t - s.e.silenceSince > Sec100(100)
     /\ silenceNow
     /\ s.e.silenceSince # 0
     /\ Abs(t - s.e.silenceSince - Sec100(100)) < Sec100(3)
  THEN Emit(s, Msg("silence", "true", <<>>))
  ELSE s

\* engine.ts 249: the ~30 Hz gate of {energy}
EnergyDue(e, t) == (t - e.lastEnergySentAt) * 30 >= TicksPerSec

\* engine.ts 248-252
EnergyGate(s, t, energyNorm) ==
  IF EnergyDue(s.e, t)
  THEN Emit([s EXCEPT !.e.lastEnergySentAt = t], Msg("energy", "", <<energyNorm>>))
  ELSE s

\* engine.ts 339-360.  The FFT is not modelled: mag is the half spectrum of
\* the frame (frameSize / 2 magnitudes), an input of the call.  A bin the
\* prevMag buffer does not have yields NaN, which adds nothing and is not
\* stored.  The result is <<prevMag', flux>>, flux in hundredths.
computeSpectrumAndFlux(e, mag) ==
  LET half == Len(mag)
      pos(i) == IF i <= Len(e.prevMag) /\ mag[i] - e.prevMag[i] > 0
                THEN mag[i] - e.prevMag[i] ELSE 0
      sum == SumSeq([i \in 1..half |-> pos(i)])
  IN  [prevMag |-> [i \in 1..Len(e.prevMag) |-> IF i <= half THEN mag[i] ELSE e.prevMag[i]],
       flux |-> IF half = 0 THEN 0 ELSE (sum * 100) \div half]

\* Math.ceil(a / b) for positive b
CeilDiv(a, b) == -((-a) \div b)

\* engine.ts 362-371
pushFlux(e, t, flux) ==
  LET maxLen == CeilDiv(8 * e.cfg.sampleRate, e.cfg.frameSize)
      h == Append(e.fluxHistory, flux)
      ts == Append(e.fluxTimes, t)
  IN  IF Len(h) > maxLen
      THEN [e EXCEPT !.fluxHistory = Tail(h), !.fluxTimes = Tail(ts)]
      ELSE [e EXCEPT !.fluxHistory = h, !.fluxTimes = ts]

\* engine.ts 374-390: a beat candidate on the second-most-recent flux sample
BeatCandidate(h) ==
  LET n == Len(h)
      window == Slice(h, Max(0, n - 1 - 8), n)
      cur == h[n]
      prev == h[n - 1]
      prev2 == h[n - 2]
  IN  /\ n >= 12
      /\ prev * 10 * Len(window) > 22 * SumSeq(window)   \* prev > mean * 2.2
      /\ prev > prev2 /\ cur < prev

\* A faulty debounce of 0.12 s.
BeatDebouncedShort(beatTime, lastBeatTime) == beatTime - lastBeatTime < Sec100(12)

\* engine.ts 393: a beat less than 0.22 s after the last one is dropped
BeatDebounced(beatTime, lastBeatTime) == beatTime - lastBeatTime < Sec100(22)

\* A faulty tempo estimate that halves only above 190 BPM.
updateBpmEstimateWideFold(s, rnd) ==
  LET bt == s.e.beatTimes
      k == Len(bt) - 1
      sum == bt[Len(bt)] - bt[1]
      num == 60 * k * TicksPerSec
      up[j \in 0..12] == IF num * (2 ^ j) >= 70 * sum \/ j = 12 THEN j ELSE up[j + 1]
      numUp == num * (2 ^ up[0])
      down[j \in 0..12] == IF numUp <= 190 * sum * (2 ^ j) \/ j = 12 THEN j ELSE down[j + 1]
      den == sum * (2 ^ down[0])
      bpm10 == (20 * numUp + den) \div (2 * den)
      s1 == [s EXCEPT !.e.bpm = bpm10, !.e.bpmConfidence = 0]
  IN  IF Len(bt) < 6 THEN s
      ELSE IF sum <= 0 THEN s
      ELSE IF s.e.bpm = 0 \/ Abs(s.e.bpm - bpm10) > 5 \/ rnd
           THEN Emit(s1, Msg("bpm", "", <<bpm10, 0>>))
           ELSE s1

\* A faulty estimate that is content with five beats.
updateBpmEstimateFromFive(s, rnd) ==
  LET bt == s.e.beatTimes
      k == Len(bt) - 1
      intervals == [i \in 1..k |-> bt[i + 1] - bt[i]]
      sum == SumSeq(intervals)
      sumsq == SumSeq([i \in 1..k |-> intervals[i] * intervals[i]])
      \* bpm = 60 / avg = num / sum, folded into 70..180 by doubling and halving
      num == 60 * k * TicksPerSec
      up[j \in 0..12] == IF num * (2 ^ j) >= 70 * sum \/ j = 12 THEN j ELSE up[j + 1]
      numUp == num * (2 ^ up[0])
      down[j \in 0..12] == IF numUp <= 180 * sum * (2 ^ j) \/ j = 12 THEN j ELSE down[j + 1]
      den == sum * (2 ^ down[0])
      bpm10 == (20 * numUp + den) \div (2 * den)            \* Math.round(bpm * 10)
      jitterK == Isqrt(k * sumsq - sum * sum)               \* k * stdev, in ticks
      confidence == clamp01(One - (One * jitterK) \div (k * Sec100(8)))
      prevBpm == s.e.bpm
      s1 == [s EXCEPT !.e.bpm = bpm10, !.e.bpmConfidence = confidence]
  IN  IF Len(bt) < 5 THEN s
      ELSE IF sum <= 0 THEN s
      ELSE IF prevBpm = 0 \/ Abs(prevBpm - bpm10) > 5 \/ rnd
           THEN Emit(s1, Msg("bpm", "", <<bpm10, confidence>>))
           ELSE s1

\* engine.ts 403-432.  rnd is the outcome of Math.random() < 0.1.
updateBpmEstimate(s, rnd) ==
  LET bt == s.e.beatTimes
      k == Len(bt) - 1
      intervals == [i \in 1..k |-> bt[i + 1] - bt[i]]
      sum == SumSeq(intervals)
      sumsq == SumSeq([i \in 1..k |-> intervals[i] * intervals[i]])
      \* bpm = 60 / avg = num / sum, folded into 70..180 by doubling and halving
      num == 60 * k * TicksPerSec
      up[j \in 0..12] == IF num * (2 ^ j) >= 70 * sum \/ j = 12 THEN j ELSE up[j + 1]
      numUp == num * (2 ^ up[0])
      down[j \in 0..12] == IF numUp <= 180 * sum * (2 ^ j) \/ j = 12 THEN j ELSE down[j + 1]
      den == sum * (2 ^ down[0])
      bpm10 == (20 * numUp + den) \div (2 * den)            \* Math.round(bpm * 10)
      jitterK == Isqrt(k * sumsq - sum * sum)               \* k * stdev, in ticks
      confidence == clamp01(One - (One * jitterK) \div (k * Sec100(8)))
      prevBpm == s.e.bpm
      s1 == [s EXCEPT !.e.bpm = bpm10, !.e.bpmConfidence = confidence]
  IN  IF Len(bt) < 6 THEN s
      ELSE IF sum <= 0 THEN s
      ELSE IF prevBpm = 0 \/ Abs(prevBpm - bpm10) > 5 \/ rnd
           THEN Emit(s1, Msg("bpm", "", <<bpm10, confidence>>))
           ELSE s1

\* engine.ts 394-400: what detectBeat does with a beat it accepts
acceptBeat(s, beatTime, rnd) ==
  updateBpmEstimate(
    [s EXCEPT !.e.lastBeatTime = beatTime,
              !.e.beatTimes = IF Len(@) + 1 > 16 THEN Tail(Append(@, beatTime))
                              ELSE Append(@, beatTime)],
    rnd)

\* engine.ts 373-401 and 257-260
detectBeat(s, t, rnd) ==
  LET h == s.e.fluxHistory
      n == Len(h)
      beatTime == s.e.fluxTimes[n - 1]
      bts == Append(s.e.beatTimes, beatTime)
      s1 == [s EXCEPT !.e.lastBeatTime = beatTime,
                      !.e.beatTimes = IF Len(bts) > 16 THEN Tail(bts) ELSE bts]
  IN  IF ~BeatCandidate(h) THEN s
      ELSE IF BeatDebounced(beatTime, s.e.lastBeatTime) THEN s
      ELSE Emit(updateBpmEstimate(s1, rnd), Msg("beat", "", <<t, 0>>))

\* 10000 * log1p(a) for a = 0..12
Log1p ==
  <<0, 6931, 10986, 13863, 16094, 17918, 19459, 20794, 21972, 23026, 23979, 24849, 25649>>

\* A faulty downsampling that yields one entry per FFT bin.
downsampleSpectrumPerBin(mag, bins) ==
  LET raw == [b \in 1..Len(mag) |-> Log1p[Min(mag[b], 12) + 1] \div 6]
      max == MaxSeq(raw)
  IN  [b \in 1..Len(mag) |-> IF max = 0 THEN 0 ELSE clamp01((raw[b] * One) \div max)]

\* engine.ts 434-456
downsampleSpectrum(mag, bins) ==
  LET len == Len(mag)
      start(b) == (b * len) \div bins                    \* b is 0-based
      end(b) == ((b + 1) * len) \div bins
      avg(b) == IF end(b) > start(b)
                THEN SumSeq(Slice(mag, start(b), end(b))) \div (end(b) - start(b))
                ELSE 0
      raw == [b \in 1..bins |-> Log1p[Min(avg(b - 1), 12) + 1] \div 6]
      max == MaxSeq(raw)
  IN  [b \in 1..bins |-> IF max = 0 THEN 0 ELSE clamp01((raw[b] * One) \div max)]

\* engine.ts 263: the ~20 Hz gate of {spectrum}
SpectrumDue(e, t) == (t - e.lastSpectrumSentAt) * 20 >= TicksPerSec

\* engine.ts 262-268
SpectrumGate(s, t, mag) ==
  IF SpectrumDue(s.e, t)
  THEN LET bins == downsampleSpectrum(mag, s.e.cfg.spectrumBins)
       IN  Emit([s EXCEPT !.e.lastSpectrumSentAt = t, !.e.hasSpectrumBins = TRUE,
                          !.e.lastSpectrumBins = bins],
                Msg("spectrum", "", bins))
  ELSE s

\* engine.ts 59-69: the mean of values[start .. end-1] (0-based), 0 if empty
avgRange(values, start, end) ==
  LET a == Max(0, start)
      b == Min(Max(a, end), Len(values))
  IN  IF b > a THEN SumSeq(Slice(values, a, b)) \div (b - a) ELSE 0

Mul(a, b) == (a * b) \div One

\* c0 / 100 + (c1 / 100) * x, for x in fixed point
Lin(c0, c1, x) == (c0 * One) \div 100 + (c1 * x) \div 100

\* engine.ts 492-526: the seven scores in the order of GENRE_LABELS, before
\* they are normalised.  bpm in tenths.
GenreScores(bpmIn, energyIn, bassIn, midIn, trebleIn) ==
  LET bpm == Max(600, Min(1900, bpmIn))
      energy == clamp01(energyIn)
      bass == clamp01(bassIn)
      mid == clamp01(midIn)
      treble == clamp01(trebleIn)
      fast == bpm >= 1550
      hard == ~fast /\ bpm >= 1350
      four == ~fast /\ ~hard /\ bpm >= 1150
      slow == ~fast /\ ~hard /\ ~four
      techno == Lin(25, 0, 0)
        + (IF fast THEN (15 * energy) \div 100 ELSE 0)
        + (IF hard THEN (75 * Mul(Lin(35, 65, energy), Lin(50, 50, bass))) \div 100 ELSE 0)
        + (IF four THEN (35 * Lin(25, 75, energy)) \div 100 ELSE 0)
      house == Lin(25, 0, 0)
        + (IF four THEN (85 * Mul(Lin(35, 65, energy), Lin(40, 60, mid))) \div 100 ELSE 0)
      dnb == Lin(12, 0, 0)
        + (IF fast THEN (110 * Mul(Lin(40, 60, energy), Lin(60, 40, treble))) \div 100 ELSE 0)
      trance == Lin(12, 0, 0)
        + (IF hard THEN (55 * Mul(Lin(30, 70, energy), Lin(55, 45, treble))) \div 100 ELSE 0)
      dubstep == Lin(12, 0, 0)
        + (IF hard THEN (60 * Mul(Mul(Lin(25, 75, energy), Lin(65, 35, bass)),
                                  Lin(75, -35, treble))) \div 100 ELSE 0)
      hiphop == Lin(12, 0, 0)
        + (IF slow THEN (95 * Mul(Lin(30, 70, bass), Lin(35, 65, energy))) \div 100 ELSE 0)
      ambient == Lin(12, 0, 0)
        + (IF slow THEN (35 * Mul(One - energy, Lin(60, 40, One - treble))) \div 100 ELSE 0)
        + (IF energy < (35 * One) \div 100
           THEN (220 * ((35 * One) \div 100 - energy)) \div 100 ELSE 0)
  IN  <<techno, house, dnb, trance, dubstep, hiphop, ambient>>

\* A faulty heuristic that hands out the scores without normalising them.
computeGenreDistScores(bpmIn, energyIn, bassIn, midIn, trebleIn) ==
  LET scores == GenreScores(bpmIn, energyIn, bassIn, midIn, trebleIn)
  IN  [i \in 1..7 |-> clamp01(Max(1, scores[i]))]

\* engine.ts 485-535: the engine's own heuristic distribution, as the
\* seven probabilities in the order of GENRE_LABELS.
computeGenreDist(bpmIn, energyIn, bassIn, midIn, trebleIn) ==
  LET scores == GenreScores(bpmIn, energyIn, bassIn, midIn, trebleIn)
      vec == [i \in 1..7 |-> Max(1, scores[i])]
      sum == SumSeq(vec)
  IN  [i \in 1..7 |-> clamp01((vec[i] * One) \div sum)]

\* index of the first largest entry (engine.ts 554-562)
RECURSIVE ArgMaxFrom(_, _, _)
ArgMaxFrom(v, i, best) ==
  IF i > Len(v) THEN best
  ELSE ArgMaxFrom(v, i + 1, IF v[i] > v[best] THEN i ELSE best)
ArgMax(v) == ArgMaxFrom(v, 2, 1)

LabelIndex(label) == CHOOSE i \in 1..7 : GENRE_LABELS[i] = label

\* engine.ts 540-552: the smoothed distribution after one update
SmoothGenre(genreEma, dist) ==
  LET cur == [i \in 1..7 |-> clamp01(dist[i])]
      mixed == [i \in 1..7 |-> (genreEma[i] * 75 + cur[i] * 25) \div 100]
      sum == SumSeq(mixed)
  IN  IF genreEma = <<>> THEN cur
      ELSE IF sum > 0 THEN [i \in 1..7 |-> (mixed[i] * One) \div sum]
      ELSE mixed

\* A hold that also covers the two limits (15 s, 0.12) themselves.
shouldHoldAtLimits(proposedTop, genreTop, timeSinceChange, curProb, topProb) ==
  /\ proposedTop # genreTop
  /\ timeSinceChange <= Sec100(1500)
  /\ curProb > (55 * One) \div 100
  /\ topProb <= curProb + (12 * One) \div 100

\* A faulty hold whose bar for the held label is 0.055 instead of 0.55.
shouldHoldLowBar(proposedTop, genreTop, timeSinceChange, curProb, topProb) ==
  /\ proposedTop # genreTop
  /\ timeSinceChange < Sec100(1500)
  /\ curProb > (55 * One) \div 1000
  /\ topProb < curProb + (12 * One) \div 100

\* engine.ts 568-573: the held top label resists the proposed one
shouldHold(proposedTop, genreTop, timeSinceChange, curProb, topProb) ==
  /\ proposedTop # genreTop
  /\ timeSinceChange < Sec100(1500)
  /\ curProb > (55 * One) \div 100
  /\ topProb < curProb + (12 * One) \div 100

\* engine.ts 537-590; the message carries top, then prob followed by dist
updateGenreState(s, t, dist) ==
  LET ema == SmoothGenre(s.e.genreEma, dist)
      topIdx == ArgMax(ema)
      topProb == ema[topIdx]
      proposedTop == GENRE_LABELS[topIdx]
      curProb == ema[LabelIndex(s.e.genreTop)]
      hold == shouldHold(proposedTop, s.e.genreTop, t - s.e.lastGenreChangeAt,
                         curProb, topProb)
      change == ~hold /\ proposedTop # s.e.genreTop
      top == IF change THEN proposedTop ELSE s.e.genreTop
      finalProb == ema[LabelIndex(top)]
  IN  Emit([s EXCEPT !.e.genreEma = ema,
                     !.e.genreTop = top,
                     !.e.lastGenreChangeAt = IF change THEN t ELSE @],
           Msg("genre", top, <<clamp01(finalProb)>> \o [i \in 1..7 |-> clamp01(ema[i])]))

\* engine.ts 592-621; bpm in tenths
computeMood(s, bpmIn, energyIn, bassIn, midIn, trebleIn) ==
  LET bpm == Max(600, Min(1900, bpmIn))
      energy == clamp01(energyIn)
      bass == clamp01(bassIn)
      mid == clamp01(midIn)
      treble == clamp01(trebleIn)
      bpmDrive == clamp01(((bpm - 800) * One) \div 1000)
      arousalRaw == clamp01((55 * energy + 25 * bpmDrive + 20 * bass) \div 100)
      valenceRaw == clamp01(Lin(55, 0, 0) + (35 * (treble - (75 * bass) \div 100)) \div 100
                            + (10 * (mid - One \div 2)) \div 100)
      valence == (s.e.moodValenceEma * 82 + valenceRaw * 18) \div 100
      arousal == (s.e.moodArousalEma * 82 + arousalRaw * 18) \div 100
      confidence == clamp01(Lin(35, 0, 0)
                      + (65 * ((60 * energy + 40 * (One - Abs(mid - treble))) \div 100)) \div 100)
  IN  Emit([s EXCEPT !.e.moodValenceEma = valence, !.e.moodArousalEma = arousal],
           Msg("mood", "", <<clamp01(valence), clamp01(arousal), confidence>>))

\* engine.ts 623-639
computeVocal(s, energyIn, bassIn, midIn, trebleIn) ==
  LET energy == clamp01(energyIn)
      bass == clamp01(bassIn)
      mid == clamp01(midIn)
      treble == clamp01(trebleIn)
      raw == clamp01((140 * (mid - (60 * bass) \div 100)) \div 100
                     + (35 * (treble - One \div 4)) \div 100
                     + (25 * (energy - One \div 5)) \div 100)
      ema == (s.e.vocalProbEma * 80 + raw * 20) \div 100
      prob == clamp01(ema)
  IN  Emit([s EXCEPT !.e.vocalProbEma = ema],
           Msg("vocal", IF prob > (60 * One) \div 100 THEN "true" ELSE "false", <<prob>>))

\* engine.ts 471-473: the worker's distribution is used while it is fresh
WorkerDistFresh(e, t) == e.workerGenreDist.has /\ t - e.workerGenreAt < Sec100(450)

\* engine.ts 458-483
emitClassification(s, t, energy, bins) ==
  LET n == Len(bins)
      b0 == Max(1, (n * 10) \div 64)
      b1 == Max(b0 + 1, (n * 28) \div 64)
      bass == clamp01(avgRange(bins, 0, b0))
      mid == clamp01(avgRange(bins, b0, b1))
      treble == clamp01(avgRange(bins, b1, n))
      bpm == IF s.e.bpm = 0 THEN 1200 ELSE s.e.bpm
      rawDist == IF WorkerDistFresh(s.e, t) THEN s.e.workerGenreDist.v
                 ELSE computeGenreDist(bpm, energy, bass, mid, treble)
      s1 == Emit(s, Msg("bands", "", <<bass, mid, treble>>))
      s2 == updateGenreState(s1, t, rawDist)
      s3 == computeMood(s2, bpm, energy, bass, mid, treble)
  IN  IF n < 8 THEN s
      ELSE computeVocal(s3, energy, bass, mid, treble)

\* engine.ts 271: the ~1 Hz gate of the classification messages
ClassDue(e, t) == t - e.lastClassSentAt >= Sec100(100) /\ e.hasSpectrumBins

\* engine.ts 270-274
ClassGate(s, t, energyNorm) ==
  IF ClassDue(s.e, t)
  THEN emitClassification([s EXCEPT !.e.lastClassSentAt = t], t, energyNorm,
                          s.e.lastSpectrumBins)
  ELSE s

\* engine.ts 210-274: processFrame up to the classifier's maybeClassify.
\* frame = [n: samples in the frame, rms, mag: its half spectrum]
\* The result is [e, m, t, energyNorm, returned].
processFrame(e0, frame, rnd) ==
  LET t == StreamTime(e0)
      e1 == UpdateEnergy([e0 EXCEPT !.sampleCounter = @ + frame.n,
                                    !.frameIndex = @ + 1], frame.rms)
      energyNorm == EnergyNorm(e1)
      silenceNow == SilenceNow(energyNorm)
      s2 == updateSectionHeuristics([e |-> e1, m |-> <<>>], t, energyNorm)
      s3 == SilenceToggle(s2, t, silenceNow)
      s4 == EnergyGate(SilenceEdge(s3, t, silenceNow), t, energyNorm)
      sf == computeSpectrumAndFlux(s4.e, frame.mag)
      s5 == [s4 EXCEPT !.e = pushFlux([@ EXCEPT !.prevMag = sf.prevMag], t, sf.flux)]
      s6 == detectBeat(s5, t, rnd)
      s7 == SpectrumGate(s6, t, frame.mag)
      s8 == ClassGate(s7, t, energyNorm)
  IN  IF SilenceReturns(s3.e, t, silenceNow)
      THEN [e |-> s3.e, m |-> s3.m, t |-> t, energyNorm |-> energyNorm, returned |-> TRUE]
      ELSE [e |-> s8.e, m |-> s8.m, t |-> t, energyNorm |-> energyNorm, returned |-> FALSE]

\* A faulty pushPcmFrame that does not look at the buffer's length.
AcceptsAnyLength(e, byteLength) ==
  e.configured /\ e.tmpFrame # 0 /\ e.fft # 0

\* engine.ts 198-200: the frames pushPcmFrame lets through
Accepts(e, byteLength) ==
  /\ e.configured /\ e.tmpFrame # 0 /\ e.fft # 0
  /\ byteLength = e.cfg.frameSize * 4

---------------------------------------------------------------------------
(* AudioClassifierClient (classifier-client), its resampler and ring       *)

\* classifier-config is not part of the sources at hand: the model rate and
\* the model window are scaled to the model's sample rates.
CLASSIFIER_SAMPLE_RATE == 4
CLASSIFIER_WINDOW_SAMPLES == 4

NegInfinity == -(2 ^ 30)

\* LinearResampler.process (part_006 89-111), as far as lengths go: pos is
\* kept as posN / outRate.  The result is <<resampler', output length>>.
ResamplerProcess(r, n) ==
  LET availN == (n - 1) * r.outRate - r.posN
      outLen == IF availN >= 0 THEN availN \div r.inRate + 1 ELSE 0
      posN == r.posN + outLen * r.inRate - n * r.outRate
  IN  IF n = 0 THEN <<r, 0>>
      ELSE IF r.inRate = r.outRate THEN <<r, n>>
      ELSE <<[r EXCEPT !.posN = IF posN < -r.outRate THEN -r.outRate ELSE posN,
                       !.hasTail = TRUE], outLen>>

\* new LinearResampler(inRate, outRate) (part_006 76-87); pos is posN / outRate
LinearResampler(inRate, outRate) ==
  [inRate |-> inRate, outRate |-> outRate, posN |-> 0, tail |-> 0, hasTail |-> FALSE]

\* A Float32Array is [id: which buffer it is, v: its values].

\* A faulty copy that hands back the input buffer itself.
SameBuffer(input, fresh) == input

\* input.slice() (part_006 91): the values in a buffer of their own
SliceCopy(input, fresh) == [id |-> fresh, v |-> input.v]

\* A faulty left neighbour that does not look at the tail.
LeftOfFirstIgnoresTail(r, v) == v[1]

\* part_006 99: the sample left of input[0]
LeftOfFirst(r, v) == IF r.hasTail THEN r.tail ELSE v[1]

\* LinearResampler.process(input) (part_006 89-111).  Where the rates differ
\* an output value is kept as its numerator over outRate, which is exact:
\* s0 + (s1 - s0) * frac = (s0 * outRate + (s1 - s0) * fracN) / outRate.
\* fresh is the buffer the output is allocated in.  The result is
\* [r: the resampler, out: the Float32Array returned].
LinearResamplerProcess(r, input, fresh) ==
  LET v == input.v
      n == Len(v)
      availN == (n - 1) * r.outRate - r.posN
      outLen == IF availN >= 0 THEN availN \div r.inRate + 1 ELSE 0
      posAt(i) == r.posN + (i - 1) * r.inRate                 \* i-th pass of the loop
      i0(i) == posAt(i) \div r.outRate
      fracN(i) == posAt(i) - i0(i) * r.outRate
      s0(i) == IF i0(i) = -1 THEN LeftOfFirst(r, v)
               ELSE IF i0(i) >= 0 /\ i0(i) < n THEN v[i0(i) + 1] ELSE 0
      s1(i) == IF i0(i) + 1 >= 0 /\ i0(i) + 1 < n THEN v[i0(i) + 2] ELSE v[n]
      posN == r.posN + outLen * r.inRate - n * r.outRate
  IN  IF n = 0 THEN [r |-> r, out |-> [id |-> fresh, v |-> <<>>]]
      ELSE IF r.inRate = r.outRate THEN [r |-> r, out |-> SliceCopy(input, fresh)]
      ELSE [ r |-> [r EXCEPT !.posN = IF posN < -r.outRate THEN -r.outRate ELSE posN,
                             !.tail = v[n], !.hasTail = TRUE],
             out |-> [id |-> fresh,
                      v |-> [i \in 1..outLen |->
                               s0(i) * r.outRate + (s1(i) - s0(i)) * fracN(i)]] ]

\* new FloatRingBuffer(capacity) (part_006 25-32), with its samples
FloatRingBuffer(capacity) ==
  [ cap |-> Max(1, capacity), write |-> 0, used |-> 0,
    buf |-> [i \in 1..Max(1, capacity) |-> 0] ]

\* buf.set(src, at): src copied into buf from the 0-based index at
SetAt(buf, src, at) ==
  [i \in 1..Len(buf) |-> IF i > at /\ i <= at + Len(src) THEN src[i - at] ELSE buf[i]]

\* A faulty cut that keeps the first cap samples of a long push.
EarliestOf(samples, cap) ==
  IF Len(samples) > cap THEN Slice(samples, 0, cap) ELSE samples

\* part_006 41-42: of a push longer than the buffer the last cap samples stay
LatestOf(samples, cap) ==
  IF Len(samples) > cap THEN Slice(samples, Len(samples) - cap, Len(samples)) ELSE samples

\* FloatRingBuffer.push(samples) (part_006 38-56), with its samples
FloatRingPush(ring, samples) ==
  LET cap == ring.cap
      src == LatestOf(samples, cap)
      n == Len(src)
      endSpace == cap - ring.write
  IN  IF Len(samples) = 0 THEN ring
      ELSE IF n <= endSpace
      THEN [ring EXCEPT !.buf = SetAt(@, src, ring.write),
                        !.write = IF ring.write + n = cap THEN 0 ELSE ring.write + n,
                        !.used = Min(cap, @ + n)]
      ELSE [ring EXCEPT !.buf = SetAt(SetAt(@, Slice(src, 0, endSpace), ring.write),
                                      Slice(src, endSpace, n), 0),
                        !.write = n - endSpace,
                        !.used = Min(cap, @ + n)]

\* FloatRingBuffer.readLatest(n) (part_006 58-73)
FloatRingReadLatest(ring, n) ==
  LET cap == ring.cap
      count == Max(0, Min(ring.used, n))
      start == (ring.write - count + cap) % cap
      first == cap - start
  IN  IF count = 0 THEN <<>>
      ELSE IF start + count <= cap THEN Slice(ring.buf, start, start + count)
      ELSE Slice(ring.buf, start, cap) \o Slice(ring.buf, 0, count - first)

\* FloatRingBuffer.push (part_006 38-56) of n samples
RingPush(ring, n) ==
  LET m == Min(n, ring.cap)
      endSpace == ring.cap - ring.write
  IN  IF n = 0 THEN ring
      ELSE [ring EXCEPT
             !.write = IF m <= endSpace
                       THEN (IF ring.write + m = ring.cap THEN 0 ELSE ring.write + m)
                       ELSE m - endSpace,
             !.used = Min(ring.cap, ring.used + m)]

\* FloatRingBuffer.readLatest(n).length (part_006 58-61)
RingReadLatestLen(ring, n) == Max(0, Min(ring.used, n))

NoClient ==
  [ exists |-> FALSE, worker |-> FALSE, inFlight |-> FALSE, lastSentAt |-> NegInfinity,
    requestId |-> 0,
    ring |-> [cap |-> 1, write |-> 0, used |-> 0],
    resampler |-> [inRate |-> 1, outRate |-> 1, posN |-> 0, tail |-> 0,
                   hasTail |-> FALSE] ]

\* new AudioClassifierClient(inputSampleRate, onGenreDist) (part_006 114-128)
AudioClassifierClient(inputSampleRate) ==
  [ exists |-> TRUE,
    worker |-> TRUE,            \* this.worker !== null
    inFlight |-> FALSE,
    lastSentAt |-> NegInfinity,
    requestId |-> 0,
    ring |-> [cap |-> Max(1, CLASSIFIER_SAMPLE_RATE * 12), write |-> 0, used |-> 0],
    resampler |-> LinearResampler(inputSampleRate, CLASSIFIER_SAMPLE_RATE) ]

\* AudioClassifierClient.pushPcmFrame (part_006 139-142)
ClientPushPcmFrame(c, n) ==
  LET r == ResamplerProcess(c.resampler, n)
  IN  [c EXCEPT !.resampler = r[1], !.ring = RingPush(c.ring, r[2])]

\* A faulty maybeClassify that lacks the one-second guard.
CanClassifyUnpaced(c, timeSec) ==
  /\ c.worker
  /\ ~c.inFlight
  /\ ~(c.ring.used < CLASSIFIER_WINDOW_SAMPLES)

\* part_006 145-151: the guards of maybeClassify
CanClassify(c, timeSec) ==
  /\ c.worker
  /\ ~c.inFlight
  /\ ~(timeSec - c.lastSentAt < Sec100(100))
  /\ ~(c.ring.used < CLASSIFIER_WINDOW_SAMPLES)
  /\ RingReadLatestLen(c.ring, CLASSIFIER_WINDOW_SAMPLES) = CLASSIFIER_WINDOW_SAMPLES

\* part_006 153-165: the client after a hand-off at timeSec
Classify(c, timeSec) ==
  [c EXCEPT !.requestId = @ + 1, !.inFlight = TRUE, !.lastSentAt = timeSec]

\* A faulty message handler that forgets the flag on an error reply.
OnMessageResultOnly(c, msg) ==
  IF msg.type = "result" THEN [c EXCEPT !.inFlight = FALSE] ELSE c

\* part_006 180-192: worker.on("message")
OnMessage(c, msg) ==
  IF msg.type = "result" \/ msg.type = "error" THEN [c EXCEPT !.inFlight = FALSE] ELSE c

\* part_006 194-196: worker.on("error")
OnError(c) == [c EXCEPT !.inFlight = FALSE]

\* part_006 198-201: worker.on("exit")
OnExit(c) == [c EXCEPT !.inFlight = FALSE, !.worker = FALSE]

\* A faulty callback that also restarts the engine's 1 Hz gate.
onGenreDistRestartsGate(e, dist, at, sess) ==
  [e EXCEPT !.workerGenreDist = [has |-> TRUE, v |-> dist, sess |-> sess],
            !.workerGenreAt = at, !.lastClassSentAt = at]

\* engine.ts 174-177: the callback the engine gives every client.  sess is
\* the session of the request the result answers (kept for the properties only).
onGenreDist(e, dist, at, sess) ==
  [e EXCEPT !.workerGenreDist = [has |-> TRUE, v |-> dist, sess |-> sess],
            !.workerGenreAt = at]

---------------------------------------------------------------------------
(* The classifier worker (labels.ts 235-454).  The model file, the runtime  *)
(* and the tensors are not modelled; what they do is an input:              *)
(*   env      "nofile" (fs.access fails), "noimport" (the runtime cannot be *)
(*            imported), "nocreate" (InferenceSession.create fails),        *)
(*            "nonames" (the session has no input or output name), "ok"     *)
(*   layouts  for each of the four tensor layouts, what session.run yields: *)
(*            "throws", "nodata", "seven" (one value per genre), "mapped"   *)
(*            (tags that map to genres), "unmapped" (tags that map to none) *)

\* labels.ts 235-239: the module's variables; env is the environment the
\* first call of ensureOnnxSession found
NoSession == [tried |-> FALSE, session |-> FALSE, names |-> FALSE, env |-> ""]

LayoutOutcomes == {"throws", "nodata", "seven", "mapped", "unmapped"}

\* what softmax (labels.ts 272-283) and toCoreGenreDist (355-390) return
SoftmaxDist == <<7000, 500, 500, 500, 500, 500, 500>>
MappedDist == <<500, 500, 500, 500, 500, 500, 7000>>

\* A faulty ensureOnnxSession that lets the failure of fs.access escape.
ensureOnnxSessionUncaught(o, env) ==
  IF o.tried THEN [o |-> o, val |-> o.session, threw |-> FALSE]
  ELSE IF env = "nofile"
  THEN [o |-> [o EXCEPT !.tried = TRUE, !.env = env], val |-> FALSE, threw |-> TRUE]
  ELSE IF env = "noimport" \/ env = "nocreate"
  THEN [o |-> [o EXCEPT !.tried = TRUE, !.env = env], val |-> FALSE, threw |-> FALSE]
  ELSE [o |-> [o EXCEPT !.tried = TRUE, !.env = env, !.session = TRUE,
                        !.names = (env # "nonames")],
        val |-> env # "nonames", threw |-> FALSE]

\* labels.ts 241-270.  The result is [o: the module's variables, val: the
\* value returned, threw: an exception left the function].
ensureOnnxSession(o, env) ==
  IF o.tried THEN [o |-> o, val |-> o.session, threw |-> FALSE]
  ELSE IF env = "nofile" \/ env = "noimport" \/ env = "nocreate"
  THEN [o |-> [o EXCEPT !.tried = TRUE, !.env = env], val |-> FALSE, threw |-> FALSE]
  ELSE [o |-> [o EXCEPT !.tried = TRUE, !.env = env, !.session = TRUE,
                        !.names = (env # "nonames")],
        val |-> env # "nonames", threw |-> FALSE]

\* labels.ts 404-430: the layouts are tried in order; <<>> stands for null
RECURSIVE TryLayouts(_, _)
TryLayouts(layouts, i) ==
  IF i > Len(layouts) THEN <<>>
  ELSE IF layouts[i] = "seven" THEN SoftmaxDist
  ELSE IF layouts[i] = "mapped" THEN MappedDist
  ELSE TryLayouts(layouts, i + 1)

\* labels.ts 392-431
tryPredictGenreWithOnnx(o, env, layouts) ==
  LET r == ensureOnnxSession(o, env)
  IN  IF r.threw THEN [o |-> r.o, dist |-> <<>>, threw |-> TRUE]
      ELSE IF ~r.val \/ ~r.o.session \/ ~r.o.names
           THEN [o |-> r.o, dist |-> <<>>, threw |-> FALSE]
      ELSE [o |-> r.o, dist |-> TryLayouts(layouts, 1), threw |-> FALSE]

\* labels.ts 170-222: the worker's heuristic is the engine's, on the
\* request's bpm and energy and the bands of its mel frames
computeGenreDistHeuristic(feat) ==
  computeGenreDist(feat[1], feat[2], feat[3], feat[4], feat[5])

\* labels.ts 433-454: classify and the handler that calls it.  The result is
\* the module's variables and the messages posted.
OnClassifyMessage(o, msg, env, layouts, feat) ==
  LET p == tryPredictGenreWithOnnx(o, env, layouts)
      dist == IF p.dist # <<>> THEN p.dist ELSE computeGenreDistHeuristic(feat)
  IN  [ o |-> p.o,
        posted |-> IF p.threw
                   THEN <<[type |-> "error", id |-> msg.id, timeSec |-> msg.timeSec,
                           dist |-> <<>>]>>
                   ELSE <<[type |-> "result", id |-> msg.id, timeSec |-> msg.timeSec,
                           dist |-> dist]>> ]

\* The model path is unavailable or fails: no model file, no runtime, no
\* session, or no layout that yields a distribution.
ModelPathFails(env, layouts) ==
  \/ env # "ok"
  \/ \A i \in 1..Len(layouts) : layouts[i] \in {"throws", "nodata", "unmapped"}

---------------------------------------------------------------------------
(* The system: the engine, its client, the worker thread, their events     *)

\* A frame as the engine sees it: its RMS and its half spectrum, low bins
\* at magnitude lo and high bins at magnitude hi.
FrameOf(kind, frameSize) ==
  [ n |-> frameSize, rms |-> kind.rms,
    mag |-> [i \in 1..(frameSize \div 2) |->
               IF 2 * i <= frameSize \div 2 THEN kind.lo ELSE kind.hi] ]

HasMsg(m, kind) == \E i \in 1..Len(m) : m[i].k = kind

RECURSIVE MsgsOf(_, _)
MsgsOf(m, kind) ==
  IF m = <<>> THEN <<>>
  ELSE IF Head(m).k = kind THEN <<Head(m)>> \o MsgsOf(Tail(m), kind)
  ELSE MsgsOf(Tail(m), kind)

NoWorker == [state |-> "none", inbox |-> <<>>, port |-> <<>>, onnx |-> NoSession]

\* What the last step was and what it saw (kept for the properties only).
NoCall ==
  [ op |-> "new", accepted |-> FALSE, byteLength |-> 0, t |-> 0,
    asked |-> FALSE,            \* maybeClassify was called
    handoff |-> FALSE,          \* maybeClassify posted a request
    worker |-> FALSE,           \* this.worker !== null at that call
    ringFull |-> FALSE,         \* the ring held a full window at that call
    replied |-> FALSE,          \* a reply had arrived since the last hand-off
    sinceHandoff |-> 0,         \* timeSec - lastSentAt at that call
    sinceEnergy |-> 0,          \* stream time since the session's last {energy}
    sinceSpectrum |-> 0,        \* stream time since the session's last {spectrum}
    held |-> "",                \* genreTop before a genre update
    proposed |-> "",            \* the other label of that update's distribution
    curProb |-> 0,              \* what the update gave the held label
    topProb |-> 0,              \* what the update gave the other label
    sinceChange |-> 0,          \* t - lastGenreChangeAt at that update
    request |-> 0,              \* id of the request the worker has handled
    replies |-> 0,              \* messages the worker posted for that request
    fallback |-> FALSE,         \* the model path was unavailable or failed for it
    feat |-> <<>>,              \* bpm, energy, bass, mid, treble of that request
    returned |-> FALSE,         \* processFrame left at the return of line 241
    input |-> [id |-> 0, v |-> <<>>],   \* the Float32Array given to process or push
    output |-> [id |-> 0, v |-> <<>>] ] \* the Float32Array process returned

\* A run is a maximal stretch of consecutive frames of one session that are
\* all quiet or all non-quiet (engine.ts 230).
NoRun ==
  [ started |-> FALSE, quiet |-> TRUE,
    since |-> 0,                \* stream time of the run's first frame
    last |-> 0,                 \* stream time of the run's latest frame
    flag |-> TRUE,              \* this.silence when the run began
    afterLoud |-> FALSE,        \* a non-quiet frame of the session came right before
    falses |-> 0,               \* {silence: false} sent during the run
    trues |-> 0 ]               \* {silence: true} sent during the run

\* How many messages of m are {silence: str}
SilenceMsgs(m, str) ==
  Cardinality({i \in 1..Len(m) : m[i].k = "silence" /\ m[i].s = str})

\* The run after a frame at time t that was quiet or not, flag being
\* this.silence before the frame and m what the frame sent.
RunAfter(run, t, quiet, flag, m) ==
  IF run.started /\ run.quiet = quiet
  THEN [run EXCEPT !.last = t,
                   !.falses = @ + SilenceMsgs(m, "false"),
                   !.trues = @ + SilenceMsgs(m, "true")]
  ELSE [ started |-> TRUE, quiet |-> quiet, since |-> t, last |-> t,
         flag |-> flag, afterLoud |-> run.started /\ quiet,
         falses |-> SilenceMsgs(m, "false"), trues |-> SilenceMsgs(m, "true") ]

\* The label of the {section} among the messages m, "" without one
SectionIn(m) ==
  IF \E i \in 1..Len(m) : m[i].k = "section"
  THEN m[CHOOSE i \in 1..Len(m) : m[i].k = "section"].s
  ELSE ""

NoHist ==
  [ configures |-> 0, frames |-> 0, bad |-> 0,
    session |-> 0,              \* completed configure calls
    awaiting |-> {},            \* requests of the client posted and not answered
    crashed |-> FALSE,          \* the worker's 'error' or 'exit' event has fired
    replied |-> FALSE,          \* a reply has arrived since the last hand-off
    energyAt |-> 0,             \* time of the session's last {energy}, or its start
    spectrumAt |-> 0,           \* time of the session's last {spectrum}, or its start
    beatAt |-> Never,           \* time of the session's last beat event
    beatGap |-> -Never,         \* stream time between the session's last two beats
    handoffGap |-> -NegInfinity, \* stream time between the client's last two hand-offs
    sectionLast |-> "",         \* label of the last {section} sent, sessions apart or not
    sectionRepeat |-> FALSE,    \* the last {section} sent had the label of the one before
    sectionSame |-> FALSE,      \* ... and the one before was of the same session
    sectionAt |-> Never,        \* time of the session's last {section}
    sectionGap |-> -Never,      \* stream time between the session's last two {section}
    run |-> NoRun,              \* the session's current run of quiet or non-quiet frames
    beats |-> 0,                \* beats detected in the session
    buffers |-> 0,              \* Float32Arrays allocated so far
    signal |-> <<>>,            \* all samples given to the resampler or the ring
    resampled |-> <<>>          \* all samples the resampler has returned
  ]

\* An engine without a classifier that is given the same calls.
NoRef == [e |-> AnalysisEngine, m |-> <<>>]

---------------------------------------------------------------------------
(* The job queues (engine.ts 756-807, part_009 172-231).  A job id is the   *)
(* job's index in jobs (the code draws random ids); inFlight[id] is the job *)
(* id the map holds for an asset id or video id, 0 for none; cached holds   *)
(* the ids whose files are in the cache directory; calls holds the enqueue  *)
(* calls, each with the await it stands at.                                 *)

NoQueue ==
  [ kind |-> "", jobs |-> <<>>, inFlight |-> [id \in 1..MaxQueueIds |-> 0],
    calls |-> <<>>, cached |-> {} ]

\* new AssetJobQueue() / new VideoJobQueue()
JobQueue(kind) == [NoQueue EXCEPT !.kind = kind]

\* the jobs of an id that are queued or running
LiveJobs(q, id) ==
  {j \in 1..Len(q.jobs) : q.jobs[j].id = id /\ q.jobs[j].status \in {"queued", "running"}}

\* return { jobId }
Returned(q, c, jobId) ==
  [q EXCEPT !.calls[c].pc = "returned", !.calls[c].ret = jobId,
            !.calls[c].live = LiveJobs(q, q.calls[c].id)]

\* engine.ts 776-787, part_009 193-214: a job that is done from the cache
DoneFromCache(q, c) ==
  LET q1 == [q EXCEPT !.jobs = Append(@, [status |-> "done", id |-> q.calls[c].id,
                                           fin |-> "none"])]
  IN  Returned(q1, c, Len(q1.jobs))

\* engine.ts 789-806, part_009 216-230: the job is stored, entered in the
\* in-flight map and started; runJob sets it running before its first await
StartJob(q, c) ==
  LET id == q.calls[c].id
      jobId == Len(q.jobs) + 1
      q1 == [q EXCEPT !.jobs = Append(@, [status |-> "running", id |-> id,
                                           fin |-> "pending"]),
                      !.inFlight[id] = jobId]
  IN  Returned(q1, c, jobId)

NewCall(id, pc) == [pc |-> pc, id |-> id, ret |-> 0, live |-> {}]

\* AssetJobQueue.enqueue up to its first await (engine.ts 760-766)
AssetEnqueueBegins(q, id) ==
  [q EXCEPT !.calls = Append(@, NewCall(id, "choose"))]

\* AssetJobQueue.enqueue from the result of chooseBackendAndId to the next
\* await or return (engine.ts 766-776)
AssetEnqueueChosen(q, c) ==
  LET id == q.calls[c].id
      fromCache == id \in q.cached
  IN  IF q.inFlight[id] # 0 THEN Returned(q, c, q.inFlight[id])
      ELSE IF fromCache THEN DoneFromCache(q, c)
      ELSE [q EXCEPT !.calls[c].pc = "exists"]

\* VideoJobQueue.enqueue up to its first await (part_009 178-192)
VideoEnqueueBegins(q, id) ==
  LET c == Len(q.calls) + 1
      q1 == [q EXCEPT !.calls = Append(@, NewCall(id, "exists"))]
  IN  IF q.inFlight[id] # 0 THEN Returned(q1, c, q.inFlight[id]) ELSE q1

\* enqueue from the result of fileExists to its return
\* (engine.ts 776-806, part_009 192-230)
EnqueueResumed(q, c) ==
  IF q.calls[c].id \in q.cached THEN DoneFromCache(q, c) ELSE StartJob(q, c)

\* runJob comes to its end (engine.ts 909-964): done with the files
\* written, or error
JobSettled(q, j, ok) ==
  [q EXCEPT !.jobs[j].status = IF ok THEN "done" ELSE "error",
            !.cached = IF ok THEN @ \cup {q.jobs[j].id} ELSE @]

\* the finally callback (engine.ts 802-804, part_009 226-228)
JobFinally(q, j) ==
  [q EXCEPT !.jobs[j].fin = "ran", !.inFlight[q.jobs[j].id] = 0]

InitCommon ==
  /\ eng = AnalysisEngine
  /\ cls = NoClient
  /\ wk = NoWorker
  /\ late = {}
  /\ out = <<>>
  /\ call = NoCall
  /\ hist = NoHist
  /\ ref = NoRef
  /\ queue = NoQueue

NoAnswer == <<>>

\* What a disposed client's worker leaves behind (part_006 130-137:
\* terminate() does not take back what the worker has posted, and a running
\* worker may post the result of the request it holds before it stops).
\* answer is that result's distribution, or NoAnswer.
LateFrom(w, sess, answer) ==
  { [timeSec |-> w.port[i].timeSec, dist |-> w.port[i].dist, sess |-> sess] :
      i \in {j \in 1..Len(w.port) : w.port[j].type = "result"} }
  \cup
  (IF answer # NoAnswer
   THEN {[timeSec |-> w.inbox[1].timeSec, dist |-> answer, sess |-> sess]}
   ELSE {})

\* engine.configure(partial) (engine.ts 129-180).  When the call gets to
\* line 166 the old client is disposed and, unless AUDIO_CLASSIFIER is
\* "off", a new client with a new worker is created.
Configure(partial, answer) ==
  /\ answer # NoAnswer =>
       ConfigureCompletes(eng, partial) /\ wk.state = "running" /\ wk.inbox # <<>>
  /\ eng' = configure(eng, partial)
  /\ IF ConfigureCompletes(eng, partial)
     THEN /\ cls' = IF mode # "off"
                    THEN AudioClassifierClient(MergeCfg(eng.cfg, partial).sampleRate)
                    ELSE NoClient
          /\ wk' = IF mode # "off" THEN [NoWorker EXCEPT !.state = "running"] ELSE NoWorker
          /\ late' = late \cup LateFrom(wk, hist.session, answer)
          /\ hist' = [hist EXCEPT !.configures = @ + 1, !.session = @ + 1,
                                  !.awaiting = {}, !.crashed = FALSE, !.replied = FALSE,
                                  !.energyAt = 0, !.spectrumAt = 0,
                                  !.beatAt = Never, !.beatGap = -Never,
                                  !.handoffGap = -NegInfinity,
                                  !.sectionSame = FALSE,
                                  !.sectionAt = Never, !.sectionGap = -Never,
                                  !.run = NoRun, !.beats = 0]
     ELSE /\ hist' = [hist EXCEPT !.configures = @ + 1]
          /\ UNCHANGED <<cls, wk, late>>
  /\ out' = <<>>
  /\ call' = [NoCall EXCEPT !.op = "configure",
                            !.accepted = ConfigureCompletes(eng, partial)]
  /\ UNCHANGED mode

\* engine.ts 276 with part_006 144-167: the frame is done (r is what
\* processFrame made of it, c1 the client after its pushPcmFrame) and
\* maybeClassify has posted a request or not.
FrameDone(byteLength, r, c1, asked, handoff, beats) ==
  /\ eng' = r.e
  /\ out' = r.m
  /\ cls' = IF handoff THEN Classify(c1, r.t) ELSE c1
  \* worker.postMessage: a thread that has died drops the message
  /\ wk' = IF handoff /\ wk.state = "running"
           THEN [wk EXCEPT !.inbox = Append(@, [id |-> c1.requestId + 1, timeSec |-> r.t])]
           ELSE wk
  /\ call' = [NoCall EXCEPT !.op = "push", !.accepted = TRUE,
                !.byteLength = byteLength, !.t = r.t,
                !.asked = asked, !.handoff = handoff,
                !.worker = c1.worker,
                !.ringFull = c1.ring.used >= CLASSIFIER_WINDOW_SAMPLES,
                !.replied = hist.replied,
                !.sinceHandoff = r.t - c1.lastSentAt,
                !.sinceEnergy = r.t - hist.energyAt,
                !.sinceSpectrum = r.t - hist.spectrumAt,
                !.returned = r.returned]
  /\ hist' = [hist EXCEPT
        !.frames = @ + 1,
        !.awaiting = IF handoff THEN @ \cup {c1.requestId + 1} ELSE @,
        !.replied = IF handoff THEN FALSE ELSE @,
        !.energyAt = IF HasMsg(r.m, "energy") THEN r.t ELSE @,
        !.spectrumAt = IF HasMsg(r.m, "spectrum") THEN r.t ELSE @,
        !.beatAt = IF beats # <<>> THEN beats[1].v[1] ELSE @,
        !.beatGap = IF beats # <<>> THEN beats[1].v[1] - hist.beatAt ELSE @,
        !.handoffGap = IF handoff THEN r.t - c1.lastSentAt ELSE @,
        !.sectionLast = IF HasMsg(r.m, "section") THEN SectionIn(r.m) ELSE @,
        !.sectionRepeat = IF HasMsg(r.m, "section")
                          THEN SectionIn(r.m) = hist.sectionLast ELSE @,
        !.sectionSame = IF HasMsg(r.m, "section")
                        THEN SectionIn(r.m) = hist.sectionLast /\ hist.sectionAt # Never
                        ELSE @,
        !.sectionAt = IF HasMsg(r.m, "section") THEN r.t ELSE @,
        !.sectionGap = IF HasMsg(r.m, "section") THEN r.t - hist.sectionAt ELSE @,
        !.run = RunAfter(@, r.t, SilenceNow(r.energyNorm), eng.silence, r.m),
        !.beats = IF beats # <<>> THEN @ + 1 ELSE @]
  /\ UNCHANGED <<late, mode>>

\* engine.ts 215 and 276: the classifier's part of an accepted frame
FrameClassified(byteLength, r, c1, asked) ==
  FrameDone(byteLength, r, c1, asked, asked /\ CanClassify(c1, r.t), MsgsOf(r.m, "beat"))

FrameProcessed(byteLength, r, c1) ==
  FrameClassified(byteLength, r, c1, cls.exists /\ ~r.returned)

\* engine.pushPcmFrame(buffer) (engine.ts 198-277) with the classifier's
\* pushPcmFrame (215) and maybeClassify (276) it calls.  kind gives the
\* frame's content, rnd the outcome of Math.random() < 0.1.
PushPcmFrame(byteLength, kind, rnd) ==
  IF Accepts(eng, byteLength)
  THEN FrameProcessed(byteLength,
                      processFrame(eng, FrameOf(kind, eng.cfg.frameSize), rnd),
                      IF cls.exists THEN ClientPushPcmFrame(cls, eng.cfg.frameSize) ELSE cls)
  ELSE /\ ~rnd
       /\ hist' = [hist EXCEPT !.bad = @ + 1]
       /\ out' = <<>>
       /\ call' = [NoCall EXCEPT !.op = "push", !.byteLength = byteLength]
       /\ UNCHANGED <<eng, cls, wk, late, mode>>

\* The worker thread answers the request it holds (labels.ts 433-454):
\* a result with a distribution, or an error.
WorkerReply(type, dist) ==
  /\ wk.state = "running" /\ wk.inbox # <<>>
  /\ wk' = [wk EXCEPT !.inbox = Tail(@),
                      !.port = Append(@, [type |-> type, id |-> Head(wk.inbox).id,
                                          timeSec |-> Head(wk.inbox).timeSec,
                                          dist |-> dist])]
  /\ call' = [NoCall EXCEPT !.op = "reply"]
  /\ out' = <<>>
  /\ UNCHANGED <<eng, cls, late, mode, hist>>

\* The worker thread handles the request it holds as labels.ts 392-454 do
\* (WorkerReply abstracts from how the reply comes about).
WorkerClassify(env, layouts, feat) ==
  /\ wk.state = "running" /\ wk.inbox # <<>>
  /\ wk.onnx.tried => env = wk.onnx.env
  /\ LET r == OnClassifyMessage(wk.onnx, Head(wk.inbox), env, layouts, feat)
     IN  /\ wk' = [wk EXCEPT !.inbox = Tail(@), !.port = @ \o r.posted, !.onnx = r.o]
         /\ call' = [NoCall EXCEPT !.op = "classify", !.request = Head(wk.inbox).id,
                                   !.replies = Len(r.posted),
                                   !.fallback = ModelPathFails(env, layouts),
                                   !.feat = feat]
  /\ out' = <<>>
  /\ UNCHANGED <<eng, cls, late, mode, hist>>

\* worker.on("message") of the current client (part_006 180-192)
WorkerMessage ==
  /\ wk.port # <<>>
  /\ cls' = OnMessage(cls, Head(wk.port))
  /\ eng' = IF Head(wk.port).type = "result"
            THEN onGenreDist(eng, Head(wk.port).dist, Head(wk.port).timeSec, hist.session)
            ELSE eng
  /\ hist' = [hist EXCEPT !.awaiting = @ \ {Head(wk.port).id}, !.replied = TRUE]
  /\ wk' = [wk EXCEPT !.port = Tail(@)]
  /\ call' = [NoCall EXCEPT !.op = "message"]
  /\ out' = <<>>
  /\ UNCHANGED <<late, mode>>

\* worker.on("error") (part_006 194-196): the thread died of an uncaught
\* exception; the request it held is gone.
WorkerError ==
  /\ wk.state = "running"
  /\ wk' = [wk EXCEPT !.state = "errored", !.inbox = <<>>]
  /\ cls' = OnError(cls)
  /\ hist' = [hist EXCEPT !.crashed = TRUE]
  /\ call' = [NoCall EXCEPT !.op = "error"]
  /\ out' = <<>>
  /\ UNCHANGED <<eng, late, mode>>

\* worker.on("exit") (part_006 198-201).  Node delivers what is left in the
\* port before it emits 'exit'.
WorkerExit ==
  /\ wk.state \in {"running", "errored"}
  /\ wk.port = <<>>
  /\ wk' = [wk EXCEPT !.state = "exited", !.inbox = <<>>]
  /\ cls' = OnExit(cls)
  /\ hist' = [hist EXCEPT !.crashed = TRUE]
  /\ call' = [NoCall EXCEPT !.op = "exit"]
  /\ out' = <<>>
  /\ UNCHANGED <<eng, late, mode>>

\* worker.on("message") of a disposed client: its callback is the engine's
\* (engine.ts 174-177).
LateMessage ==
  \E msg \in late :
    /\ eng' = onGenreDist(eng, msg.dist, msg.timeSec, msg.sess)
    /\ late' = late \ {msg}
    /\ call' = [NoCall EXCEPT !.op = "late"]
    /\ out' = <<>>
    /\ UNCHANGED <<cls, wk, mode, hist>>

\* The engine without a classifier (AUDIO_CLASSIFIER "off") given the same
\* configure call, the same frame, or nothing.
RefConfigure(partial) ==
  /\ ref' = [e |-> configure(ref.e, partial), m |-> <<>>]
  /\ UNCHANGED queue

RefFrame(r) == ref' = [e |-> r.e, m |-> r.m]

RefPushPcmFrame(byteLength, kind, rnd) ==
  /\ IF Accepts(ref.e, byteLength)
     THEN RefFrame(processFrame(ref.e, FrameOf(kind, ref.e.cfg.frameSize), rnd))
     ELSE ref' = [ref EXCEPT !.m = <<>>]
  /\ UNCHANGED queue

RefIdle == ref' = [ref EXCEPT !.m = <<>>] /\ UNCHANGED queue

---------------------------------------------------------------------------
(* Inputs                                                                  *)

Quiet == [rms |-> 0, lo |-> 0, hi |-> 0]
Soft  == [rms |-> (6 * ES) \div 100, lo |-> 1, hi |-> 0]
Loud  == [rms |-> (30 * ES) \div 100, lo |-> 4, hi |-> 1]
Peak  == [rms |-> (60 * ES) \div 100, lo |-> 9, hi |-> 3]

\* the visualizer's configure (server.ts 538-542)
BinsCfg(spectrumBins) ==
  [sampleRate |-> Absent, channels |-> Absent, frameSize |-> Absent,
   spectrumBins |-> spectrumBins]

\* a configure call that gives every key
FullCfg(sampleRate, frameSize, spectrumBins) ==
  [sampleRate |-> sampleRate, channels |-> 1, frameSize |-> frameSize,
   spectrumBins |-> spectrumBins]

\* configure calls that give one key
FrameSizeCfg(frameSize) ==
  [sampleRate |-> Absent, channels |-> Absent, frameSize |-> frameSize,
   spectrumBins |-> Absent]

SampleRateCfg(sampleRate) ==
  [sampleRate |-> sampleRate, channels |-> Absent, frameSize |-> Absent,
   spectrumBins |-> Absent]

\* distributions a worker returns
Techno7 == <<7000, 500, 500, 500, 500, 500, 500>>
Ambient7 == <<500, 500, 500, 500, 500, 500, 7000>>

---------------------------------------------------------------------------
(* Specification of the dispatcher: one steady signal, every interleaving  *)
(* of frames, configure calls and worker events.                           *)

InitDisp == InitCommon /\ mode = "worker"

ConfigureDisp ==
  \E p \in {FullCfg(8, 4, 8), BinsCfg(8)}, a \in {NoAnswer, Techno7} :
    /\ hist.configures < MaxDispConfigures
    /\ Configure(p, a) /\ RefConfigure(p)

PushDisp ==
  \E len \in {16, 12} :
    /\ hist.frames < MaxDispFrames /\ hist.bad < MaxBadFrames
    /\ PushPcmFrame(len, Loud, FALSE) /\ RefPushPcmFrame(len, Loud, FALSE)

ReplyDisp ==
  \E type \in {"result", "error"}, dist \in {Techno7, Ambient7} :
    WorkerReply(type, dist) /\ RefIdle

MessageDisp == WorkerMessage /\ RefIdle

ErrorDisp == WorkerError /\ RefIdle

ExitDisp == WorkerExit /\ RefIdle

LateDisp == LateMessage /\ RefIdle

NextDisp ==
  \/ ConfigureDisp
  \/ PushDisp
  \/ ReplyDisp
  \/ MessageDisp
  \/ ErrorDisp
  \/ ExitDisp
  \/ LateDisp

SpecDisp == InitDisp /\ [][NextDisp]_vars

---------------------------------------------------------------------------
(* Specification of the beat detector: one session without a classifier,   *)
(* frames of 0.1 s, every sequence of silent frames and peaks.             *)

InitBeat == InitCommon /\ mode = "off"

ConfigureBeat ==
  /\ hist.configures = 0
  /\ Configure(FullCfg(40, 4, 8), NoAnswer) /\ UNCHANGED <<ref, queue>>

PushBeat ==
  \E kind \in {Quiet, Peak} :
    /\ hist.frames < MaxBeatFrames
    /\ Accepts(eng, 16)
    /\ PushPcmFrame(16, kind, FALSE) /\ UNCHANGED <<ref, queue>>

NextBeat ==
  \/ ConfigureBeat
  \/ PushBeat

SpecBeat == InitBeat /\ [][NextBeat]_vars

---------------------------------------------------------------------------
(* Specification of the tempo estimate: beat timelines whose intervals are *)
(* 0.22 s, 1/3 s or 0.86 s, each beat accepted as detectBeat accepts it.    *)

InitBpm == InitCommon /\ mode = "off"

ConfigureBpm ==
  /\ hist.configures < MaxBpmConfigures
  /\ Configure(FullCfg(40, 4, 8), NoAnswer) /\ UNCHANGED <<ref, queue>>

\* detectBeat has found a beat, interval after the last one (engine.ts 392-400)
BeatAccepted(r) ==
  /\ eng' = r.e
  /\ out' = r.m
  /\ call' = [NoCall EXCEPT !.op = "beat"]
  /\ hist' = [hist EXCEPT !.beats = @ + 1]
  /\ UNCHANGED <<cls, wk, late, mode, ref, queue>>

BeatBpm ==
  \E interval \in {Sec100(22), TicksPerSec \div 3, 258}, rnd \in BOOLEAN :
    /\ eng.configured
    /\ Len(eng.beatTimes) < MaxBpmBeats
    /\ ~BeatDebounced(Max(eng.lastBeatTime, 0) + interval, eng.lastBeatTime)
    /\ BeatAccepted(acceptBeat([e |-> eng, m |-> <<>>],
                               Max(eng.lastBeatTime, 0) + interval, rnd))

NextBpm ==
  \/ ConfigureBpm
  \/ BeatBpm

SpecBpm == InitBpm /\ [][NextBpm]_vars

---------------------------------------------------------------------------
(* Specification of the section heuristics: sessions without a classifier, *)
(* frames of 2/3 s, every sequence of silent, loud and peak frames.        *)

InitSect == InitCommon /\ mode = "off"

ConfigureSect ==
  /\ hist.configures < MaxSectConfigures
  /\ Configure(FullCfg(6, 4, 8), NoAnswer) /\ UNCHANGED <<ref, queue>>

PushSect ==
  \E kind \in {Quiet, Loud, Peak} :
    /\ hist.frames < MaxSectFrames
    /\ Accepts(eng, 16)
    /\ PushPcmFrame(16, kind, FALSE) /\ UNCHANGED <<ref, queue>>

NextSect ==
  \/ ConfigureSect
  \/ PushSect

SpecSect == InitSect /\ [][NextSect]_vars

---------------------------------------------------------------------------
(* Specification of the silence flag: one session without a classifier,    *)
(* frames of 2/3 s or of 0.1 s, every sequence of silent, soft and loud    *)
(* frames.                                                                 *)

InitSil == InitCommon /\ mode = "off"

ConfigureSil ==
  /\ hist.configures = 0
  /\ \E sampleRate \in {6, 40} :
       Configure(FullCfg(sampleRate, 4, 8), NoAnswer) /\ UNCHANGED <<ref, queue>>

PushSil ==
  \E kind \in {Quiet, Soft, Loud} :
    /\ hist.frames < MaxSilFrames
    /\ Accepts(eng, 16)
    /\ PushPcmFrame(16, kind, FALSE) /\ UNCHANGED <<ref, queue>>

NextSil ==
  \/ ConfigureSil
  \/ PushSil

SpecSil == InitSil /\ [][NextSil]_vars

---------------------------------------------------------------------------
(* Specification of the spectrum and energy messages: sessions without a   *)
(* classifier whose configure calls change the frame size and the number   *)
(* of spectrum bins, frames of 0.5 s or 1 s, silent, loud and peak.        *)

InitBins == InitCommon /\ mode = "off"

ConfigureBins ==
  \E partial \in {FullCfg(8, 4, 8), FullCfg(8, 8, 8), BinsCfg(16)} :
    /\ hist.configures < MaxBinsConfigures
    /\ Configure(partial, NoAnswer) /\ UNCHANGED <<ref, queue>>

PushBins ==
  \E kind \in {Quiet, Loud, Peak}, byteLength \in {16, 32} :
    /\ hist.frames < MaxBinsFrames
    /\ Accepts(eng, byteLength)
    /\ PushPcmFrame(byteLength, kind, FALSE) /\ UNCHANGED <<ref, queue>>

NextBins ==
  \/ ConfigureBins
  \/ PushBins

SpecBins == InitBins /\ [][NextBins]_vars

---------------------------------------------------------------------------
(* Specification of the classifier worker: one session with a worker, a    *)
(* steady signal, and every environment and outcome of the model path.     *)

InitWorker == InitCommon /\ mode = "worker"

ConfigureWorker ==
  /\ hist.configures = 0
  /\ Configure(FullCfg(8, 4, 8), NoAnswer) /\ UNCHANGED <<ref, queue>>

PushWorker ==
  /\ hist.frames < MaxWorkerFrames
  /\ Accepts(eng, 16)
  /\ PushPcmFrame(16, Loud, FALSE) /\ UNCHANGED <<ref, queue>>

ClassifyWorker ==
  \E env \in {"nofile", "noimport", "nocreate", "nonames", "ok"},
     layouts \in [1..4 -> LayoutOutcomes],
     feat \in {<<1200, (28 * One) \div 100, One, One \div 2, One \div 4>>,
               <<1400, (90 * One) \div 100, One \div 2, One, One \div 4>>} :
    /\ env # "ok" => \A i \in 1..4 : layouts[i] = "throws"
    /\ WorkerClassify(env, layouts, feat) /\ UNCHANGED <<ref, queue>>

MessageWorker == WorkerMessage /\ RefIdle

NextWorker ==
  \/ ConfigureWorker
  \/ PushWorker
  \/ ClassifyWorker
  \/ MessageWorker

SpecWorker == InitWorker /\ [][NextWorker]_vars

---------------------------------------------------------------------------
(* Specification of the resampler: one LinearResampler to the classifier's *)
(* rate from an input rate below, at or above it, given frames of every     *)
(* length up to MaxResampleLen that rise or fall.                           *)

InitResample == InitCommon /\ mode = "off"

ConstructResample ==
  \E inRate \in {1, 2, 3, 4, 5, 6, 10} :
    /\ hist.configures = 0
    /\ cls' = [NoClient EXCEPT !.resampler = LinearResampler(inRate, CLASSIFIER_SAMPLE_RATE)]
    /\ hist' = [hist EXCEPT !.configures = 1]
    /\ call' = [NoCall EXCEPT !.op = "new"]
    /\ out' = <<>>
    /\ UNCHANGED <<eng, wk, late, mode, ref, queue>>

\* resampler.process(input), input being buffer hist.buffers + 1
Resampled(r, input) ==
  /\ cls' = [cls EXCEPT !.resampler = r.r]
  /\ hist' = [hist EXCEPT !.frames = @ + 1, !.buffers = @ + 2,
                          !.signal = @ \o input.v, !.resampled = @ \o r.out.v]
  /\ call' = [NoCall EXCEPT !.op = "process", !.input = input, !.output = r.out]
  /\ out' = <<>>
  /\ UNCHANGED <<eng, wk, late, mode, ref, queue>>

ProcessResample ==
  \E n \in 0..MaxResampleLen, rising \in BOOLEAN :
    /\ hist.configures = 1
    /\ hist.frames < MaxResampleCalls
    /\ n = 0 => rising
    /\ Resampled(LinearResamplerProcess(
                   cls.resampler,
                   [id |-> hist.buffers + 1,
                    v |-> [i \in 1..n |-> IF rising THEN i * i ELSE -(2 * i)]],
                   hist.buffers + 2),
                 [id |-> hist.buffers + 1,
                  v |-> [i \in 1..n |-> IF rising THEN i * i ELSE -(2 * i)]])

NextResample ==
  \/ ConstructResample
  \/ ProcessResample

SpecResample == InitResample /\ [][NextResample]_vars

---------------------------------------------------------------------------
(* Specification of the pipeline: one session with a classifier client,    *)
(* frames of 2/3 s or 0.1 s, every sequence of silent, soft and loud       *)
(* frames, so that silent stretches of every length begin and end.          *)

InitPipe == InitCommon /\ mode = "worker"

ConfigurePipe ==
  /\ hist.configures = 0
  /\ \E sampleRate \in {6, 40} :
       Configure(FullCfg(sampleRate, 4, 8), NoAnswer) /\ UNCHANGED <<ref, queue>>

PushPipe ==
  \E kind \in {Quiet, Soft, Loud} :
    /\ hist.frames < MaxPipeFrames
    /\ Accepts(eng, 16)
    /\ PushPcmFrame(16, kind, FALSE) /\ UNCHANGED <<ref, queue>>

NextPipe ==
  \/ ConfigurePipe
  \/ PushPipe

SpecPipe == InitPipe /\ [][NextPipe]_vars

---------------------------------------------------------------------------
(* Specification of the configuration: an engine without a classifier      *)
(* given full and partial configure calls, among them a zero sample rate,   *)
(* a zero frame size and a frame size that is no power of two (new FFT      *)
(* throws), and frames of the byte lengths 16, 24 and 32.  Frames are 2 s   *)
(* long, so the flux history holds at most 4 entries.  A frame pushed while *)
(* the sample rate is 0 has a stream time that is not a number; the         *)
(* arithmetic on it is not modelled, and such a frame is not pushed.        *)

InitCfg == InitCommon /\ mode = "off"

ConfigureCfg ==
  \E partial \in {FullCfg(2, 4, 8), FrameSizeCfg(8), FrameSizeCfg(6),
                  FrameSizeCfg(0), SampleRateCfg(0)} :
    /\ hist.configures < MaxCfgConfigures
    /\ Configure(partial, NoAnswer) /\ UNCHANGED <<ref, queue>>

PushCfg ==
  \E kind \in {Quiet, Peak}, byteLength \in {16, 24, 32} :
    /\ hist.frames < MaxCfgFrames
    /\ Accepts(eng, byteLength)
    /\ eng.cfg.sampleRate > 0
    /\ PushPcmFrame(byteLength, kind, FALSE) /\ UNCHANGED <<ref, queue>>

NextCfg ==
  \/ ConfigureCfg
  \/ PushCfg

SpecCfg == InitCfg /\ [][NextCfg]_vars

---------------------------------------------------------------------------
(* Specification of the ring buffer: one FloatRingBuffer of a capacity up  *)
(* to MaxRingCap, given pushes of every length up to one more than that;    *)
(* the samples are numbered in the order they are pushed.                   *)

InitRing == InitCommon /\ mode = "off"

ConstructRing ==
  \E capacity \in 0..MaxRingCap :
    /\ hist.configures = 0
    /\ cls' = [NoClient EXCEPT !.ring = FloatRingBuffer(capacity)]
    /\ hist' = [hist EXCEPT !.configures = 1]
    /\ call' = [NoCall EXCEPT !.op = "new"]
    /\ out' = <<>>
    /\ UNCHANGED <<eng, wk, late, mode, ref, queue>>

\* ring.push(samples)
RingPushed(samples) ==
  /\ cls' = [cls EXCEPT !.ring = FloatRingPush(@, samples)]
  /\ hist' = [hist EXCEPT !.frames = @ + 1, !.signal = @ \o samples]
  /\ call' = [NoCall EXCEPT !.op = "ringpush", !.input = [id |-> 0, v |-> samples]]
  /\ out' = <<>>
  /\ UNCHANGED <<eng, wk, late, mode, ref, queue>>

PushRing ==
  \E n \in 0..(MaxRingCap + 1) :
    /\ hist.configures = 1
    /\ hist.frames < MaxRingPushes
    /\ RingPushed([i \in 1..n |-> Len(hist.signal) + i])

NextRing ==
  \/ ConstructRing
  \/ PushRing

SpecRing == InitRing /\ [][NextRing]_vars

---------------------------------------------------------------------------
(* Specification of the genre label's hysteresis: updateGenreState applied  *)
(* to every pair of a held and a proposed label, for probabilities and      *)
(* times since the last change on both sides of its three thresholds.       *)
(* The distribution is taken as it is (engine.ts 540-541), so that the      *)
(* probabilities are the ones drawn.                                        *)

InitGenre == InitCommon /\ mode = "off"

ConfigureGenre ==
  /\ hist.configures = 0
  /\ Configure(FullCfg(8, 4, 8), NoAnswer) /\ UNCHANGED <<ref, queue>>

\* The distribution that gives curProb to label a and topProb to label b
TwoLabels(a, curProb, b, topProb) ==
  [i \in 1..7 |-> IF GENRE_LABELS[i] = a THEN curProb
                   ELSE IF GENRE_LABELS[i] = b THEN topProb ELSE 0]

\* engine.ts 537-590 at time t, the engine holding label held since
\* t - sinceChange
GenreUpdated(r, held, proposed, curProb, topProb, sinceChange) ==
  /\ eng' = r.e
  /\ out' = r.m
  /\ call' = [NoCall EXCEPT !.op = "genre", !.held = held, !.proposed = proposed,
                            !.curProb = curProb, !.topProb = topProb,
                            !.sinceChange = sinceChange]
  /\ UNCHANGED <<cls, wk, late, mode, hist, ref, queue>>

UpdateGenre ==
  \E held \in {"Techno", "Ambient"}, proposed \in {"House", "Trance"},
     curProb \in {(55 * One) \div 100, (56 * One) \div 100, (60 * One) \div 100},
     more \in {-((5 * One) \div 100), (5 * One) \div 100, (12 * One) \div 100 - 1,
               (12 * One) \div 100, (12 * One) \div 100 + 1},
     sinceChange \in {Sec100(500), Sec100(1500) - 1, Sec100(1500), Sec100(1500) + 1} :
    /\ eng.configured
    /\ GenreUpdated(updateGenreState(
                      [e |-> [eng EXCEPT !.genreEma = <<>>, !.genreTop = held,
                                         !.lastGenreChangeAt = Sec100(2000) - sinceChange],
                       m |-> <<>>],
                      Sec100(2000),
                      TwoLabels(held, curProb, proposed, curProb + more)),
                    held, proposed, curProb, curProb + more, sinceChange)

NextGenre ==
  \/ ConfigureGenre
  \/ UpdateGenre

SpecGenre == InitGenre /\ [][NextGenre]_vars

---------------------------------------------------------------------------
(* Specification of the job queues: one AssetJobQueue or VideoJobQueue,    *)
(* enqueue calls for MaxQueueIds asset or video ids, interleaved at their   *)
(* awaits with one another and with the jobs.                               *)

InitJobs == InitCommon /\ mode = "off"

QueueStep(q) ==
  /\ queue' = q
  /\ UNCHANGED <<eng, cls, wk, late, mode, out, call, hist, ref>>

ConstructQueue ==
  \E kind \in {"asset", "video"} :
    /\ queue.kind = ""
    /\ QueueStep(JobQueue(kind))

AssetEnqueue ==
  \E id \in 1..MaxQueueIds :
    /\ queue.kind = "asset"
    /\ Len(queue.calls) < MaxEnqueues
    /\ QueueStep(AssetEnqueueBegins(queue, id))

AssetChosen ==
  \E c \in 1..Len(queue.calls) :
    /\ queue.calls[c].pc = "choose"
    /\ QueueStep(AssetEnqueueChosen(queue, c))

VideoEnqueue ==
  \E id \in 1..MaxQueueIds :
    /\ queue.kind = "video"
    /\ Len(queue.calls) < MaxEnqueues
    /\ QueueStep(VideoEnqueueBegins(queue, id))

EnqueueResumes ==
  \E c \in 1..Len(queue.calls) :
    /\ queue.calls[c].pc = "exists"
    /\ QueueStep(EnqueueResumed(queue, c))

JobSettles ==
  \E j \in 1..Len(queue.jobs), ok \in BOOLEAN :
    /\ queue.jobs[j].status = "running"
    /\ QueueStep(JobSettled(queue, j, ok))

JobEnds ==
  \E j \in 1..Len(queue.jobs) :
    /\ queue.jobs[j].status \in {"done", "error"}
    /\ queue.jobs[j].fin = "pending"
    /\ QueueStep(JobFinally(queue, j))

NextJobs ==
  \/ ConstructQueue
  \/ AssetEnqueue
  \/ AssetChosen
  \/ VideoEnqueue
  \/ EnqueueResumes
  \/ JobSettles
  \/ JobEnds

SpecJobs == InitJobs /\ [][NextJobs]_vars

---------------------------------------------------------------------------
(* Specification of the top label: one session whose genre updates get     *)
(* distributions that sum to 1, 0.5 s or 16 s apart: two labels at 0.5      *)
(* each, one label at 0.7, and a distribution that brings the smoothed      *)
(* probabilities of Techno and House level.                                 *)

InitTop == InitCommon /\ mode = "off"

ConfigureTop ==
  /\ hist.configures = 0
  /\ Configure(FullCfg(8, 4, 8), NoAnswer) /\ UNCHANGED <<ref, queue>>

\* engine.ts 537-590 at time t
TopUpdated(r, t) ==
  /\ eng' = r.e
  /\ out' = r.m
  /\ call' = [NoCall EXCEPT !.op = "top", !.t = t, !.held = eng.genreTop,
                            !.sinceChange = t - eng.lastGenreChangeAt]
  /\ hist' = [hist EXCEPT !.frames = @ + 1]
  /\ UNCHANGED <<cls, wk, late, mode, ref, queue>>

UpdateTop ==
  \E dist \in {Techno7, Ambient7,
                TwoLabels("Techno", One \div 2, "House", One \div 2),
                TwoLabels("House", One \div 2, "Drum & Bass", One \div 2),
                TwoLabels("Techno", 6875, "House", 3125)},
     dt \in {Sec100(50), Sec100(1600)} :
    /\ eng.configured
    /\ hist.frames < MaxTopUpdates
    /\ TopUpdated(updateGenreState([e |-> eng, m |-> <<>>], call.t + dt, dist),
                  call.t + dt)

NextTop ==
  \/ ConfigureTop
  \/ UpdateTop

SpecTop == InitTop /\ [][NextTop]_vars

---------------------------------------------------------------------------
(* Properties of the dispatcher, checked under SpecDisp                    *)

\* C1: at most one classify request of a client is outstanding at any
\* time: a request is posted only when every earlier one has had its
\* result or error reply.
C1_OneOutstanding == Cardinality(hist.awaiting) <= 1

\* C2: the worker distribution that a classification of the current
\* session uses comes from a request dispatched in the current session.
C2_NoResultOfEarlierSession ==
  (call.op = "push" /\ HasMsg(out, "genre") /\ WorkerDistFresh(eng, call.t))
    => eng.workerGenreDist.sess = hist.session

\* C3: after a configure call whose merged config has sampleRate > 0 and
\* frameSize > 0 the engine is in the state of a new engine configured with
\* that config.
C3_ConfigureResetsAll ==
  (call.op = "configure" /\ call.accepted) => eng = configure(AnalysisEngine, eng.cfg)

\* C5: a hand-off happens at least 1.0 s of stream time after the client's
\* previous one and only with a full window in the ring; so of the calls
\* within one second of a hand-off none hands off.
C5_HandoffSpacing ==
  /\ call.handoff => (call.sinceHandoff >= Sec100(100) /\ call.ringFull)
  /\ hist.handoffGap >= Sec100(100)

\* a second hand-off, exactly one second after the first
C5_Witness == call.handoff /\ hist.handoffGap = Sec100(100)

\* C6 as stated: once a reply (result or error) has been received the
\* in-flight flag is clear, and the next maybeClassify call that is at least
\* 1.0 s after the last hand-off and sees a full ring hands off.
C6_ReplyReenables ==
  /\ hist.replied => ~cls.inFlight
  /\ (call.asked /\ call.replied /\ call.sinceHandoff >= Sec100(100) /\ call.ringFull)
       => call.handoff

\* C6, amended: the same, for a call made while the client still has its
\* worker (the 'exit' event has not fired since the reply).
C6_ReplyReenablesWhileWorker ==
  /\ hist.replied => ~cls.inFlight
  /\ (call.asked /\ call.replied /\ call.worker
        /\ call.sinceHandoff >= Sec100(100) /\ call.ringFull)
       => call.handoff

\* a hand-off that follows a reply
C6_Witness == call.handoff /\ call.replied /\ hist.handoffGap < -NegInfinity

\* C7: once the worker's 'error' or 'exit' event has fired, the client
\* posts no request until the next configure.
C7_NoRequestAfterCrash == call.handoff => ~hist.crashed

\* a pushPcmFrame call with a buffer of the wrong length, or before any
\* configure call that completed
C8_RejectedFrame ==
  /\ hist'.frames + hist'.bad > hist.frames + hist.bad
  /\ call'.byteLength # eng.cfg.frameSize * 4 \/ hist.session = 0

\* C8: such a call emits nothing, gives nothing to the classifier and
\* leaves the engine and its getStatus() as they were.
C8_SilentDrop ==
  [][C8_RejectedFrame =>
       /\ eng' = eng /\ cls' = cls /\ wk' = wk
       /\ out' = <<>>
       /\ getStatus(eng') = getStatus(eng)]_vars

\* a frame of the wrong length in mid-stream
C8_Witness == call.op = "push" /\ ~call.accepted /\ hist.frames > 0 /\ hist.bad > 0

RECURSIVE NonGenre(_)
NonGenre(m) ==
  IF m = <<>> THEN <<>>
  ELSE IF Head(m).k = "genre" THEN NonGenre(Tail(m))
  ELSE <<Head(m)>> \o NonGenre(Tail(m))

NonGenreState(e) ==
  [e EXCEPT !.genreEma = <<>>, !.genreTop = "", !.lastGenreChangeAt = 0,
            !.workerGenreDist = NoDist, !.workerGenreAt = 0]

\* C9: whatever the worker does, the engine emits the messages that the
\* engine without a classifier emits for the same calls, genre messages
\* aside, and its state differs in the genre fields at most.
C9_ClassifierIndependence ==
  /\ NonGenre(out) = NonGenre(ref.m)
  /\ NonGenreState(eng) = NonGenreState(ref.e)

\* a frame whose genre message was computed from the worker's distribution
C9_Witness ==
  /\ call.op = "push" /\ HasMsg(out, "genre") /\ WorkerDistFresh(eng, call.t)
  /\ out # ref.m

---------------------------------------------------------------------------
(* Properties of the engine's gates and of the beat detector               *)

\* C4: in every session an accepted frame emits {energy} exactly when its
\* stream time is at least 1/30 s after the session's previous {energy}
\* (or after the session's start), and {spectrum} exactly when it is at
\* least 1/20 s after the previous {spectrum} (or the start).
C4_RateGates ==
  (call.op = "push" /\ call.accepted) =>
    /\ HasMsg(out, "energy") <=> call.sinceEnergy * 30 >= TicksPerSec
    /\ HasMsg(out, "spectrum") <=> call.sinceSpectrum * 20 >= TicksPerSec

\* C10: two beat events of one session are at least 0.22 s of stream
\* time apart.
C10_BeatSpacing == hist.beatGap >= Sec100(22)

\* a beat 0.3 s after the previous beat of the session
C10_Witness == HasMsg(out, "beat") /\ hist.beatGap = Sec100(30)

\* The rule of C23: at least 12 flux samples, the second-most-recent above
\* 2.2 times the mean of the last 8, above the one before it, and the newest
\* below it.
CandidateOverLastEight(h) ==
  LET n == Len(h)
  IN  /\ n >= 12
      /\ h[n - 1] * 10 * 8 > 22 * SumSeq(Slice(h, n - 8, n))
      /\ h[n - 1] > h[n - 2] /\ h[n] < h[n - 1]

\* C23: a frame that went through beat detection declares a beat exactly
\* when its flux history meets the rule of the last 8 samples and the beat
\* is not within 0.22 s of the last one.
C23_CandidateRule ==
  (call.op = "push" /\ call.accepted /\ ~call.returned) =>
    /\ HasMsg(out, "beat") => CandidateOverLastEight(eng.fluxHistory)
    /\ (CandidateOverLastEight(eng.fluxHistory) /\ ~HasMsg(out, "beat")) =>
         BeatDebounced(eng.fluxTimes[Len(eng.fluxTimes) - 1], eng.lastBeatTime)

---------------------------------------------------------------------------
(* Properties of the tempo estimate, checked under SpecBpm                 *)

BpmValuesIn(lo, hi) ==
  /\ eng.bpm # 0 => (lo <= eng.bpm /\ eng.bpm <= hi)
  /\ \A i \in 1..Len(out) : out[i].k = "bpm" => (lo <= out[i].v[1] /\ out[i].v[1] <= hi)

\* C11 as stated: every BPM the engine emits or stores is at least 70 and
\* strictly below 180 (BPM in tenths).
C11_BpmBelow180 == BpmValuesIn(700, 1799)

\* C11, amended: every BPM the engine emits or stores is at least 70 and
\* at most 180.
C11_BpmUpTo180 == BpmValuesIn(700, 1800)

\* a timeline of beats 1/3 s apart: the engine emits 180 BPM
C11_Witness == HasMsg(out, "bpm") /\ eng.bpm = 1800

\* C21: while fewer than 6 beats have been detected since the last reset, no
\* {bpm} message is sent and the status BPM is null (0 in the model).
C21_NoBpmBeforeSixBeats ==
  hist.beats < 6 =>
    /\ ~HasMsg(out, "bpm")
    /\ eng.bpm = 0
    /\ getStatus(eng).bpm = 0

\* The fifth beat of a second session has just been detected.
C21_Witness ==
  /\ call.op = "beat" /\ hist.beats = 5 /\ hist.session > 1
  /\ Len(eng.beatTimes) = 5

---------------------------------------------------------------------------
(* Properties of the section heuristics (SpecSect)                         *)

\* C12 as stated: no {section} message carries the label of the {section}
\* message sent before it, whatever configure and pushPcmFrame calls are made.
C12_NoRepeat == ~hist.sectionRepeat

\* C12: no {section} message carries the label of the {section} message sent
\* before it in the same session (since the last configure that completed).
C12_NoRepeatInSession == ~hist.sectionSame

\* A session's second {section} message has just been sent.
C12_Witness ==
  /\ HasMsg(out, "section")
  /\ hist.sectionGap < Sec100(1000)
  /\ hist.session > 1

\* C13: two {section} messages of one session are more than 1.0 s of stream
\* time apart, and one frame sends at most one {section} message.
C13_SectionSpacing ==
  /\ hist.sectionGap > Sec100(100)
  /\ Len(MsgsOf(out, "section")) <= 1

\* A {section} message has just been sent two frames (4/3 s) after the one
\* before it in the session.
C13_Witness ==
  /\ HasMsg(out, "section")
  /\ hist.sectionGap = 4 * (TicksPerSec \div 3)

---------------------------------------------------------------------------
(* Properties of the silence flag (SpecSil)                                *)

\* C14: {silence: false} is sent (the flag goes to false) only on a frame of
\* a run of non-quiet frames that has lasted at least 0.3 s.
C14_FalseAfterDebounce ==
  SilenceMsgs(out, "false") > 0 =>
    /\ ~hist.run.quiet
    /\ hist.run.last - hist.run.since >= Sec100(30)

\* C15: a run of quiet frames that follows a non-quiet frame and has lasted
\* more than 1 s has sent exactly one {silence: true}.
C15_OneTruePerStretch ==
  (hist.run.started /\ hist.run.quiet /\ hist.run.afterLoud
     /\ hist.run.last - hist.run.since > Sec100(100))
  => hist.run.trues = 1

\* C16: a run of non-quiet frames sends at most one {silence: false}, and
\* exactly one once it has lasted more than 0.3 s if the silence flag was
\* set when it began.
C16_OneFalsePerRun ==
  (hist.run.started /\ ~hist.run.quiet) =>
    /\ hist.run.falses <= 1
    /\ (hist.run.flag /\ hist.run.last - hist.run.since > Sec100(30))
         => hist.run.falses = 1

\* Three quiet frames (2 s), then a non-quiet run that is in its third frame
\* and has sent its one {silence: false}.
C16_Witness ==
  /\ hist.run.started /\ ~hist.run.quiet /\ hist.run.flag
  /\ hist.run.since = Sec100(200)
  /\ hist.run.last - hist.run.since > Sec100(100)
  /\ hist.run.falses = 1

---------------------------------------------------------------------------
(* Properties of the spectrum and energy messages (SpecBins)               *)

---------------------------------------------------------------------------
(* Properties of the configuration (SpecCfg)                               *)

\* engine.ts 199: the guards a frame of the right length passes
FramesAccepted(e) == e.configured /\ e.tmpFrame # 0 /\ e.fft # 0

\* C29: whenever the engine accepts frames, its sample rate and its frame
\* size are positive and the FFT instance and prevMag are the ones built for
\* the current frame size.
C29_ConfigConsistent ==
  FramesAccepted(eng) =>
    /\ eng.cfg.sampleRate > 0 /\ eng.cfg.frameSize > 0
    /\ eng.fft = eng.cfg.frameSize
    /\ Len(eng.prevMag) * 2 = eng.cfg.frameSize

StrictlyIncreasing(s) == \A i \in 1..(Len(s) - 1) : s[i] < s[i + 1]

\* what the frame before this state did to a history: appended one entry,
\* and dropped the oldest one or none
OldestDropped(before, after) ==
  /\ after # <<>>
  /\ LET kept == SubSeq(after, 1, Len(after) - 1)
     IN  kept = before \/ (before # <<>> /\ kept = Tail(before))

\* C26: after every accepted frame the beat timeline holds at most 16 time
\* stamps in strictly increasing order, the flux history holds at most
\* ceil(8 * sampleRate / frameSize) entries, flux values and flux times are
\* equal in number, and a frame that overflows the flux history removes its
\* oldest entry.
C26_BoundedTimelines ==
  /\ []((call.op = "push" /\ call.accepted) =>
          /\ Len(eng.beatTimes) <= 16
          /\ StrictlyIncreasing(eng.beatTimes)
          /\ Len(eng.fluxHistory) <= CeilDiv(8 * eng.cfg.sampleRate, eng.cfg.frameSize)
          /\ Len(eng.fluxHistory) = Len(eng.fluxTimes))
  /\ [][(call'.op = "push" /\ call'.accepted) =>
          /\ OldestDropped(eng.fluxHistory, eng'.fluxHistory)
          /\ OldestDropped(eng.fluxTimes, eng'.fluxTimes)]_vars

---------------------------------------------------------------------------
(* Properties of the pipeline (SpecPipe)                                   *)

\* C27: every accepted frame runs the whole pipeline: the return inside the
\* silence handling is never taken, so the frame appends one flux sample
\* and reaches the classifier's scheduling call.
C27_WholePipeline ==
  /\ []((call.op = "push" /\ call.accepted) =>
          /\ ~call.returned
          /\ call.asked = cls.exists)
  /\ [][(call'.op = "push" /\ call'.accepted) =>
          /\ OldestDropped(eng.fluxHistory, eng'.fluxHistory)
          /\ OldestDropped(eng.fluxTimes, eng'.fluxTimes)]_vars

\* A silent stretch longer than 1 s is ended by a frame that is not silent:
\* the frame clears the flag, goes on and reaches maybeClassify.
C27_Witness ==
  /\ call.op = "push" /\ call.accepted /\ call.asked
  /\ \E i \in 1..Len(out) : out[i].k = "silence" /\ out[i].s = "false"
  /\ call.t - eng.silenceSince > Sec100(100)
  /\ eng.silenceSince > 0
  /\ Len(eng.fluxHistory) = hist.frames

---------------------------------------------------------------------------
(* Properties of the resampler (SpecResample)                              *)

\* C22: when the input rate equals the output rate, process returns the
\* values of its input unchanged, in a buffer that is not the input's, on
\* every call; the resampler's position and tail stay as they were made.
C22_IdentityCopies ==
  (call.op = "process" /\ cls.resampler.inRate = cls.resampler.outRate) =>
    /\ call.output.v = call.input.v
    /\ call.output.id # call.input.id
    /\ hist.resampled = hist.signal

\* The last of several calls at equal rates returned a copy of three samples.
C22_Witness ==
  /\ call.op = "process" /\ cls.resampler.inRate = cls.resampler.outRate
  /\ hist.frames = MaxResampleCalls
  /\ Len(call.input.v) = 3 /\ call.output.v = call.input.v

\* C24: at unequal rates the outputs of the calls made frame by frame, put
\* end to end, are what one call on the frames put end to end returns from a
\* new resampler of the same rates.
C24_FrameByFrameEqualsWhole ==
  cls.resampler.inRate # cls.resampler.outRate =>
    hist.resampled =
      LinearResamplerProcess(
        LinearResampler(cls.resampler.inRate, cls.resampler.outRate),
        [id |-> 0, v |-> hist.signal], 0).out.v

\* A call has produced a sample that lies between the last sample of the
\* frame before and the first of its own (position -1 < pos < 0).
C24_Witness ==
  /\ call.op = "process"
  /\ cls.resampler.inRate # cls.resampler.outRate
  /\ hist.frames > 1
  /\ Len(call.output.v) > 0
  /\ Len(hist.resampled) > Len(call.output.v)
  /\ (Len(hist.resampled) - Len(call.output.v)) * cls.resampler.inRate
       < (Len(hist.signal) - Len(call.input.v)) * cls.resampler.outRate
  /\ (Len(hist.resampled) - Len(call.output.v)) * cls.resampler.inRate
       > (Len(hist.signal) - Len(call.input.v) - 1) * cls.resampler.outRate

---------------------------------------------------------------------------
(* Properties of the ring buffer (SpecRing)                                *)

\* C25: after any pushes, size is the smaller of the capacity and the number
\* of samples pushed, and readLatest(n) returns the min(n, size) samples
\* pushed last, in the order they were pushed.
C25_RingKeepsLatest ==
  hist.configures = 1 =>
    /\ cls.ring.used = Min(cls.ring.cap, Len(hist.signal))
    /\ \A n \in 0..(cls.ring.cap + 1) :
         FloatRingReadLatest(cls.ring, n) =
           Slice(hist.signal, Len(hist.signal) - Min(n, cls.ring.used), Len(hist.signal))

\* A ring that has been overrun stands with its write index inside the
\* buffer (reading the whole of it wraps), after a push longer than the
\* buffer and a later one.
C25_Witness ==
  /\ call.op = "ringpush"
  /\ cls.ring.cap = 3 /\ cls.ring.used = 3 /\ cls.ring.write = 2
  /\ Len(hist.signal) = 6 /\ Len(call.input.v) = 2
  /\ FloatRingReadLatest(cls.ring, 3) = <<4, 5, 6>>

\* C20: the worker posts exactly one message for a classify request it has
\* handled, with the request's id, and when the model path was unavailable
\* or failed that message is a result that carries the heuristic
\* distribution of the request.
C20_OneReplyHeuristicFallback ==
  call.op = "classify" =>
    /\ call.replies = 1
    /\ wk.port # <<>>
    /\ wk.port[Len(wk.port)].id = call.request
    /\ call.fallback =>
         /\ wk.port[Len(wk.port)].type = "result"
         /\ wk.port[Len(wk.port)].dist = computeGenreDistHeuristic(call.feat)

\* The session was created and every tensor layout failed: the worker has
\* answered its second request with the heuristic distribution.
C20_Witness ==
  /\ call.op = "classify" /\ call.fallback /\ call.request > 1
  /\ wk.onnx.session /\ wk.onnx.names
  /\ wk.port[Len(wk.port)].type = "result"

---------------------------------------------------------------------------
(* Properties of the job queues (SpecJobs)                                 *)

\* C30: at most one job of an asset id or video id is queued or running at
\* any time; the in-flight entry of a job stays until the job has finished;
\* an enqueue call that returns while a job of its id is queued or running
\* returns that job's id.
C30_OneJobPerId ==
  /\ \A id \in 1..MaxQueueIds : Cardinality(LiveJobs(queue, id)) <= 1
  /\ \A j \in 1..Len(queue.jobs) :
       queue.jobs[j].status \in {"queued", "running"} =>
         queue.inFlight[queue.jobs[j].id] = j
  /\ \A c \in 1..Len(queue.calls) :
       queue.calls[c].pc = "returned" => queue.calls[c].live \subseteq {queue.calls[c].ret}

---------------------------------------------------------------------------
(* Properties of the top label (SpecTop)                                   *)

\* the label of the highest probability, the first of them on ties
MostProbable(v, label) ==
  \E i \in 1..7 :
    /\ GENRE_LABELS[i] = label
    /\ \A j \in 1..7 : v[j] <= v[i]
    /\ \A j \in 1..(i - 1) : v[j] < v[i]

\* C28: after every genre update whose input sums to 1 the held top label
\* is the label of the highest smoothed probability (the lowest index on
\* ties), and the message's prob is the maximum of its dist.
C28_TopIsMostProbable ==
  HasMsg(out, "genre") =>
    LET g == MsgsOf(out, "genre")[1]
        dist == SubSeq(g.v, 2, 8)
    IN  /\ MostProbable(eng.genreEma, eng.genreTop)
        /\ g.s = eng.genreTop
        /\ dist = [i \in 1..7 |-> clamp01(eng.genreEma[i])]
        /\ g.v[1] = MaxSeq(dist)

\* Within 15 s of its last change the held label House is level with Techno:
\* the label goes to Techno, the lower index.
C28_Witness ==
  /\ call.op = "top" /\ HasMsg(out, "genre")
  /\ call.held = "House" /\ eng.genreTop = "Techno"
  /\ call.sinceChange < Sec100(1500)
  /\ eng.genreEma[1] = eng.genreEma[2]

---------------------------------------------------------------------------
(* Properties of the genre label's hysteresis (SpecGenre)                   *)

===========================================================================
